---------------------------- MODULE Spec2Model ----------------------------
(***************************************************************************)
(* A model of the DV360 Apps Script samples: the entity patch mask         *)
(* (DV360Entity.getPatchMask), the REST resource client (DV360Resource     *)
(* list / get / update / create / delete over ApiUtil.executeGenericRequest_) *)
(* and the sheet synchronisation passes (DV360Sheet.uploadChanges and the  *)
(* older ApiResource.uploadChanges).                                       *)
(*                                                                         *)
(* JavaScript values are records [t, ref, v]: t is the typeof tag, ref the *)
(* identity of an object (0 for primitives), v the text of the value (the  *)
(* string itself, the decimal text of a number, the JSON text of an object *)
(* or array).  Two objects are the same object iff their ref is equal.     *)
(***************************************************************************)
EXTENDS Integers, Sequences, FiniteSets, TLC

VARIABLES
    \* ---- getPatchMask (pure function, SpecMask) ----
    mKind,        \* resource kind of the two entities
    mOriginal,    \* 'this' of getPatchMask
    mModified,    \* the argument of getPatchMask
    mChanged,     \* changedFields, the array that is joined into the mask
    mPc,          \* "init" | "done"
    \* ---- DV360Resource over ApiUtil.executeGenericRequest_ (Spec) ----
    rKind,        \* the resource (Advertisers, Campaigns, ...)
    server,       \* the JSON content of the entity the server holds
    serverExists, \* FALSE once the server has deleted it
    rOp,          \* "idle" | "update" | "delete" | "create" | "list"
    rPc,          \* position in the running operation
    rEntity,      \* the entity argument (delete mutates it)
    rOriginal,    \* 'original' of update: the fetched entity
    rLog,         \* the requests issued by the running operation, in order
    rResult,      \* the value the operation returned
    rError,       \* the message of the error the operation threw
    rPages,       \* list: the pages the server has answered with
    rPageIdx,     \* list: the number of pages fetched
    rResultList,  \* list: resultList
    rCalls,       \* operations started so far
    \* ---- the sheet passes: DV360Sheet and ApiResource (SpecSheet) ----
    sClass,       \* "DV360Sheet" | "ApiResource": the class built over the sheet
    sTargeting,   \* the entities of the resource have updateTargetingOptions
    sheet,        \* the data rows of the sheet, top to bottom
    sPc,          \* "idle" | "running" | "done" | "thrown"
    sRowsData,    \* the RowData array readAllEntitiesFromSheet_ returned
    sGroups,      \* the three filtered arrays of uploadChanges
    sTodo,        \* the rows still to process: create, then update, then delete
    sToDelete,    \* rowNumbersToDelete of deleteEntries_
    sEvents,      \* the resource calls made by the pass, in order
    sRemoved,     \* the sheet.deleteRow calls made by the pass, in order
    sError,       \* the message of the error the pass threw
    \* ---- LineItemTargetingOptions.bulkUpdate (SpecBulk) ----
    tOld,         \* oldOptions: the options the line item has
    tNew,         \* newOptions: the options to instate
    tCreateReqs,  \* creationRequests
    tDeleteReqs,  \* deletionRequests
    tPosts,       \* the bulk-edit POST requests issued, in order
    tPc,          \* "init" | "post" | "done" | "thrown"
    \* ---- ApiUtil.replaceInputValues (SpecTemplate) ----
    uInput,       \* the template
    uParams,      \* params of the first call
    uParams2,     \* params of a second call, over the output of the first
    uOutput,      \* what the first call returned
    uOutput2,     \* what the second call returned
    uPc,          \* "init" | "once" | "twice"
    \* ---- dv360api ApiUtil.executeApiRequest (SpecRetry) ----
    qRetry,       \* retryOnFailure
    qCount,       \* operationCount of the innermost call
    qAttempts,    \* the responses UrlFetchApp.fetch gave, in order
    qRefreshes,   \* the calls of refreshAuthToken
    qResult,      \* what the outermost call returned
    qPc,          \* "fetch" | "returned" | "thrown"
    \* ---- the loop of ApiUtil.executeGenericRequest_ (SpecPage) ----
    pUrl,         \* url: the URL of the next fetch
    pRequests,    \* the URLs fetched, in order
    pTokens,      \* nextPageToken of each response, NoToken when it has none
    pPc,          \* "fetch" | "done" | "thrown"
    \* ---- DV360Sheet row and entity conversion (SpecCodec) ----
    kHeader,      \* the header fields of the sheet
    kRow,         \* the cells of the row, one for each header field
    kPayload,     \* what buildPayloadObject_ returned
    kRowOut,      \* what buildSheetRowData_ returned for that payload
    kPc,          \* "init" | "payload" | "row"
    \* ---- Util.flattenObject (SpecFlatten) ----
    fInput,       \* ob
    fOutput,      \* the object returned
    fPc,          \* "init" | "done"
    \* ---- the URIs of DV360Resource (SpecUri) ----
    gKind,        \* the resource
    gEntity,      \* the entity the operation is called with
    gModified,    \* the modified entity of update
    gUris,        \* the URIs built, by operation
    gPc           \* "init" | "done"

maskVars == <<mKind, mOriginal, mModified, mChanged, mPc>>

resVars == <<rKind, server, serverExists, rOp, rPc, rEntity, rOriginal, rLog,
             rResult, rError, rPages, rPageIdx, rResultList, rCalls>>

sheetVars == <<sClass, sTargeting, sheet, sPc, sRowsData, sGroups, sTodo,
               sToDelete, sEvents, sRemoved, sError>>

bulkVars == <<tOld, tNew, tCreateReqs, tDeleteReqs, tPosts, tPc>>

templateVars == <<uInput, uParams, uParams2, uOutput, uOutput2, uPc>>

retryVars == <<qRetry, qCount, qAttempts, qRefreshes, qResult, qPc>>

pageVars == <<pUrl, pRequests, pTokens, pPc>>

codecVars == <<kHeader, kRow, kPayload, kRowOut, kPc>>

flatVars == <<fInput, fOutput, fPc>>

uriVars == <<gKind, gEntity, gModified, gUris, gPc>>

\* The variables of the specifications that follow SpecTemplate.
laterVars == <<retryVars, pageVars, codecVars, flatVars, uriVars>>

\* The variables of the specifications up to SpecTemplate.
earlierVars == <<maskVars, resVars, sheetVars, bulkVars, templateVars>>

vars == <<maskVars, resVars, sheetVars, bulkVars, templateVars, laterVars>>

---------------------------------------------------------------------------
(* JavaScript values *)

Undefined == [t |-> "undefined", ref |-> 0, v |-> ""]
Str(s) == [t |-> "string", ref |-> 0, v |-> s]
Num(s) == [t |-> "number", ref |-> 0, v |-> s]
Obj(r, json) == [t |-> "object", ref |-> r, v |-> json]

\* A field that is not an own property of the object.
Absent == [t |-> "absent", ref |-> 0, v |-> ""]

\* The strings of the model that Number() converts to a number (to the number
\* with the same decimal text); every other string of the model gives NaN.
NumericStrings == {"1", "2"}

\* String(object): Array.prototype.toString joins the elements, and a plain
\* object gives "[object Object]".
ToPrimitiveString(json) ==
    CASE json = "[\"1\"]" -> "1"
      [] json = "[1]" -> "1"
      [] OTHER -> "[object Object]"

RECURSIVE LooseEquals(_, _)
\* The == of JavaScript (so a != b is ~LooseEquals(a, b)).
LooseEquals(a, b) ==
    IF a.t = "object" /\ b.t = "object" THEN a.ref = b.ref
    ELSE IF a.t = "undefined" \/ b.t = "undefined" THEN a.t = b.t
    ELSE IF a.t = "object" THEN LooseEquals(Str(ToPrimitiveString(a.v)), b)
    ELSE IF b.t = "object" THEN LooseEquals(a, Str(ToPrimitiveString(b.v)))
    ELSE IF a.t = b.t THEN a.v = b.v
    ELSE a.v = b.v /\ a.v \in NumericStrings

\* The === of JavaScript.
StrictEquals(a, b) ==
    IF a.t = "object" /\ b.t = "object" THEN a.ref = b.ref
    ELSE a.t = b.t /\ a.v = b.v

\* Equality of the JSON content of two values (what a deep comparison sees).
ContentEquals(a, b) == a.t = b.t /\ a.v = b.v

---------------------------------------------------------------------------
(* Entities: a function from the names of the own properties to their values *)

Kinds == {"Advertisers", "Campaigns", "InsertionOrders", "LineItems", "Creatives"}

\* The primary identifier of the entities of a kind (the Id of its field list).
IdFieldOf(k) ==
    CASE k = "Advertisers" -> "advertiserId"
      [] k = "Campaigns" -> "campaignId"
      [] k = "InsertionOrders" -> "insertionOrderId"
      [] k = "LineItems" -> "lineItemId"
      [] k = "Creatives" -> "creativeId"

\* The third argument of the DV360Resource constructor; Advertisers passes
\* none, so its primaryIdField_ is undefined, which as a property key is the
\* string "undefined".
primaryIdField_(k) ==
    IF k = "Advertisers" THEN "undefined" ELSE IdFieldOf(k)

\* Order of the own properties: the constructor assigns fieldList_ first and
\* Object.assign copies the others after it.
PropertyOrder(k) ==
    <<"fieldList_", IdFieldOf(k), "updateTime", "displayName", "entityStatus",
      "frequencyCap">>

RECURSIVE SelectOwn(_, _)
SelectOwn(order, ob) ==
    IF order = <<>> THEN <<>>
    ELSE IF Head(order) \in DOMAIN ob
         THEN <<Head(order)>> \o SelectOwn(Tail(order), ob)
         ELSE SelectOwn(Tail(order), ob)

\* Object.getOwnPropertyNames(ob)
getOwnPropertyNames(k, ob) == SelectOwn(PropertyOrder(k), ob)

\* Util.getValueByDottedFieldName for a name without a dot: ob[fieldName].
getValueByDottedFieldName(ob, fieldName) ==
    IF fieldName \in DOMAIN ob THEN ob[fieldName] ELSE Undefined

\* An object with the given candidate properties, the Absent ones left out.
MakeObject(props) ==
    [f \in {g \in DOMAIN props : props[g] # Absent} |-> props[f]]

\* DV360Entity constructor: this.fieldList_ = fieldList (a new array, ref r),
\* then Object.assign(this, obj).
NewEntity(obj, r) ==
    [f \in DOMAIN obj \cup {"fieldList_"} |->
        IF f \in DOMAIN obj THEN obj[f] ELSE Obj(r, "fieldList")]

\* The filter chain of getPatchMask.
PatchMaskKeeps(this, modified, field) ==
    /\ ~LooseEquals(Str(field), getValueByDottedFieldName(this, "primaryIdField_"))
    /\ ~LooseEquals(Str(field), Str("updateTime"))
    /\ ~LooseEquals(getValueByDottedFieldName(modified, field),
                    getValueByDottedFieldName(this, field))

\* changedFields of getPatchMask: the own property names of modified that
\* pass the three filters, in order.
ChangedFields(k, this, modified) ==
    SelectSeq(getOwnPropertyNames(k, modified),
              LAMBDA field : PatchMaskKeeps(this, modified, field))

RECURSIVE Join(_, _)
\* Array.prototype.join
Join(seq, sep) ==
    IF seq = <<>> THEN ""
    ELSE IF Len(seq) = 1 THEN seq[1]
    ELSE seq[1] \o sep \o Join(Tail(seq), sep)

\* original.getPatchMask(modified)
getPatchMask(k, this, modified) == Join(ChangedFields(k, this, modified), ",")

Contains(seq, x) == \E i \in 1..Len(seq) : seq[i] = x

---------------------------------------------------------------------------
(* Parked values of the variables a specification does not use *)

ResParked ==
    /\ rKind = "Campaigns"
    /\ server = <<>>
    /\ serverExists = FALSE
    /\ rOp = "off"
    /\ rPc = "off"
    /\ rEntity = <<>>
    /\ rOriginal = <<>>
    /\ rLog = <<>>
    /\ rResult = <<>>
    /\ rError = ""
    /\ rPages = <<>>
    /\ rPageIdx = 0
    /\ rResultList = <<>>
    /\ rCalls = 0

NoGroups == [create |-> <<>>, update |-> <<>>, delete |-> <<>>]

SheetParked ==
    /\ sClass = "off"
    /\ sTargeting = FALSE
    /\ sheet = <<>>
    /\ sPc = "off"
    /\ sRowsData = <<>>
    /\ sGroups = NoGroups
    /\ sTodo = <<>>
    /\ sToDelete = <<>>
    /\ sEvents = <<>>
    /\ sRemoved = <<>>
    /\ sError = ""

BulkParked ==
    /\ tOld = <<>>
    /\ tNew = <<>>
    /\ tCreateReqs = <<>>
    /\ tDeleteReqs = <<>>
    /\ tPosts = <<>>
    /\ tPc = "off"

TemplateParked ==
    /\ uInput = <<>>
    /\ uParams = <<>>
    /\ uParams2 = <<>>
    /\ uOutput = <<>>
    /\ uOutput2 = <<>>
    /\ uPc = "off"

RetryParked ==
    /\ qRetry = FALSE
    /\ qCount = 0
    /\ qAttempts = <<>>
    /\ qRefreshes = 0
    /\ qResult = ""
    /\ qPc = "off"

PageParked ==
    /\ pUrl = <<>>
    /\ pRequests = <<>>
    /\ pTokens = <<>>
    /\ pPc = "off"

CodecParked ==
    /\ kHeader = <<>>
    /\ kRow = <<>>
    /\ kPayload = <<>>
    /\ kRowOut = <<>>
    /\ kPc = "off"

FlatParked ==
    /\ fInput = <<>>
    /\ fOutput = <<>>
    /\ fPc = "off"

UriParked ==
    /\ gKind = ""
    /\ gEntity = <<>>
    /\ gModified = <<>>
    /\ gUris = <<>>
    /\ gPc = "off"

LaterParked ==
    RetryParked /\ PageParked /\ CodecParked /\ FlatParked /\ UriParked

---------------------------------------------------------------------------
(* SpecMask: original.getPatchMask(modified) on bounded pairs of entities *)

\* Number of distinct values each scalar field of the mask model ranges over.
MaskValues == 2

ScalarText(i) == CASE i = 1 -> "1" [] i = 2 -> "2" [] i = 3 -> "3" [] OTHER -> "4"

\* Candidate values of a scalar field: not set, or one of MaskValues strings;
\* the identifier may also be the number a cell of a sheet holds.
MaskScalars == {Absent} \cup {Str(ScalarText(i)) : i \in 1..MaskValues}
MaskIds == MaskScalars \cup {Num("1")}

\* Candidate values of the nested field frequencyCap of an object whose
\* nested objects have identity r.
MaskNested(r) == {Absent} \cup {Obj(r, ScalarText(i)) : i \in 1..MaskValues}

MaskObject(k, id, ut, dn, fc) ==
    MakeObject([f \in {IdFieldOf(k), "updateTime", "displayName", "frequencyCap"} |->
        CASE f = "updateTime" -> ut
          [] f = "displayName" -> dn
          [] f = "frequencyCap" -> fc
          [] OTHER -> id])

\* 'this' is an entity built by convertObjectToEntity from a parsed response
\* (which carries the identifier and updateTime): its nested object is
\* object 1 and its fieldList_ is object 2.
MaskOriginals(k) ==
    {NewEntity(MaskObject(k, id, ut, dn, fc), 2) :
        id \in MaskIds \ {Absent}, ut \in MaskScalars \ {Absent},
        dn \in MaskScalars, fc \in MaskNested(1)}

\* The argument is another entity (nested object 3, fieldList_ 4), a plain
\* object (nested object 3, no fieldList_), or a shallow copy of the original
\* sharing its nested object.
MaskModifieds(k, orig) ==
    LET fresh == {MaskObject(k, id, ut, dn, fc) :
                    id \in MaskIds, ut \in MaskScalars, dn \in MaskScalars,
                    fc \in MaskNested(3)}
        shallow == {MaskObject(k, id, ut, dn, getValueByDottedFieldName(orig, "frequencyCap")) :
                    id \in MaskIds, ut \in MaskScalars, dn \in MaskScalars}
    IN  fresh \cup shallow \cup {NewEntity(o, 4) : o \in fresh \cup shallow} \cup {orig}

MaskInit ==
    /\ mPc = "init"
    /\ mKind \in Kinds
    /\ mOriginal \in MaskOriginals(mKind)
    /\ mModified \in MaskModifieds(mKind, mOriginal)
    /\ mChanged = <<>>

MaskParked ==
    /\ mPc = "off"
    /\ mKind = "Campaigns"
    /\ mOriginal = <<>>
    /\ mModified = <<>>
    /\ mChanged = <<>>

\* original.getPatchMask(modified)
ComputeMask ==
    /\ mPc = "init"
    /\ mChanged' = ChangedFields(mKind, mOriginal, mModified)
    /\ mPc' = "done"
    /\ UNCHANGED <<mKind, mOriginal, mModified, resVars, sheetVars,
                   bulkVars, templateVars,
                   laterVars>>

InitMask ==
    MaskInit /\ ResParked /\ SheetParked /\ BulkParked /\ TemplateParked
    /\ LaterParked

NextMask == ComputeMask

SpecMask == InitMask /\ [][NextMask]_vars

\* The mask string the call returned.
mMask == Join(mChanged, ",")

\* The names of the data fields (all own properties but the bookkeeping
\* fieldList_) on which two entities differ by content.
DataFields(ob) == DOMAIN ob \ {"fieldList_"}
DifferingFields(a, b) ==
    {f \in DataFields(a) \cup DataFields(b) :
        ~ContentEquals(getValueByDottedFieldName(a, f), getValueByDottedFieldName(b, f))}

\* Two distinct instances: they share no fieldList_ array.
DistinctInstances(a, b) ==
    ~("fieldList_" \in DOMAIN a /\ "fieldList_" \in DOMAIN b
        /\ a["fieldList_"].ref = b["fieldList_"].ref)

\* C2: the mask returned by original.getPatchMask(modified) contains neither
\* the primary-identifier field of the kind nor updateTime.
C2_MaskExcludesIdAndUpdateTime ==
    mPc = "done" =>
        /\ ~Contains(mChanged, IdFieldOf(mKind))
        /\ ~Contains(mChanged, "updateTime")

\* C3: for a structurally equal copy y of x (a distinct instance with equal
\* JSON content), x.getPatchMask(y) is the empty string.
C3_EqualCopyGivesEmptyMask ==
    (/\ mPc = "done"
     /\ DistinctInstances(mOriginal, mModified)
     /\ DifferingFields(mOriginal, mModified) = {})
        => mMask = ""

\* C4: with equal primary identifier and equal updateTime and exactly one
\* other field differing, the mask is exactly that field's name.
C4_OneChangedFieldIsTheMask ==
    (/\ mPc = "done"
     /\ Cardinality(DifferingFields(mOriginal, mModified)) = 1
     /\ DifferingFields(mOriginal, mModified) \cap {IdFieldOf(mKind), "updateTime"} = {})
        => \E f \in DifferingFields(mOriginal, mModified) : mMask = f

---------------------------------------------------------------------------
(* Spec: the DV360Resource operations against one entity of the server *)

\* Operations started in one run.
MaxCalls == 2
\* Pages of one list answer, and entities of one page.
MaxPages == 2
MaxItems == 1

Archived == "ENTITY_STATUS_ARCHIVED"
Active == "ENTITY_STATUS_ACTIVE"

\* HTTP status codes the server answers with.
ResponseCodes == {200, 201, 404}

\* A transport that takes every response as a success.
IsSuccessAlways(code) == TRUE

\* The test of executeGenericRequest_ is getResponseCode() / 100 !== 2 with
\* the exact quotient of JavaScript numbers: only the code 2 * 100 passes.
IsSuccess(code) == code = 2 * 100

\* response.getContentText() of a response that is not taken as a success.
ResponseText(code) == IF code = 404 THEN "NOT_FOUND" ELSE "BODY"

\* String(value), as the value appears in a URI.
UriText(value) == IF value.t = "undefined" THEN "undefined" ELSE value.v

\* DV360Resource.getPrimaryId: entity[this.primaryIdField_]
getPrimaryId(k, entity) == getValueByDottedFieldName(entity, primaryIdField_(k))

\* The server answers a request for the entity it holds with any code, and a
\* request that addresses another path with 404.
ServerCodes(k, id) ==
    IF serverExists /\ UriText(id) = UriText(server[IdFieldOf(k)])
    THEN ResponseCodes ELSE {404}

\* JSON.parse of a response body: every nested object is a new object r.
ParseJson(content, r) ==
    [f \in DOMAIN content |->
        IF content[f].t = "object" THEN Obj(r, content[f].v) ELSE content[f]]

\* JSON.stringify: the content without the identities.
Stringify(ob) == ParseJson(ob, 0)

\* convertObjectToEntity(result) of a parsed response (objects 1 and 2).
convertObjectToEntity(content) == NewEntity(ParseJson(content, 1), 2)

\* The fields of the API resource (what the server stores).
ApiFields(k) == {IdFieldOf(k), "updateTime", "displayName", "entityStatus", "frequencyCap"}

\* The server's PATCH: the fields of the mask are taken from the body.
ApplyPatch(k, content, changed, body) ==
    LET taken == {f \in ApiFields(k) : Contains(changed, f) /\ f \in DOMAIN body}
    IN  [f \in DOMAIN content \cup taken |->
            IF f \in taken THEN Stringify(body)[f] ELSE content[f]]

\* The server's POST: the API fields of the body under a new identifier.
Created(k, body, id) ==
    [f \in (DOMAIN body \cap ApiFields(k)) \cup {IdFieldOf(k), "updateTime"} |->
        IF f = IdFieldOf(k) THEN Str(id)
        ELSE IF f = "updateTime" THEN Str("1")
        ELSE Stringify(body)[f]]

SetField(ob, name, value) ==
    [f \in DOMAIN ob \cup {name} |-> IF f = name THEN value ELSE ob[f]]

RemoveField(ob, name) == [f \in DOMAIN ob \ {name} |-> ob[f]]

Request(method, id, mask, body, code) ==
    [method |-> method, id |-> id, mask |-> mask, body |-> body, code |-> code]

\* The entities a caller passes: plain objects or entities (fieldList_ is
\* object 4), their nested object being object 3.
CallerEntities(k) ==
    LET plain == {MakeObject([f \in ApiFields(k) |->
                    CASE f = "updateTime" -> ut
                      [] f = "displayName" -> dn
                      [] f = "entityStatus" -> es
                      [] f = "frequencyCap" -> fc
                      [] OTHER -> id]) :
                    id \in {Absent, Str("1")},
                    ut \in {Str("1")},
                    dn \in {Str("1"), Str("2")},
                    es \in {Str(Active)},
                    fc \in {Absent, Obj(3, "1")}}
    IN  plain \cup {NewEntity(o, 4) : o \in plain}

ServerContents(k) ==
    {MakeObject([f \in ApiFields(k) |->
        CASE f = "updateTime" -> Str("1")
          [] f = "displayName" -> Str("1")
          [] f = "entityStatus" -> Str(Active)
          [] f = "frequencyCap" -> fc
          [] OTHER -> Str("1")]) : fc \in {Absent, Obj(0, "1")}}

\* One page of a list answer: hasList says whether the page carries the
\* entity list (result[apiFieldName_]), items are the identifiers of its
\* entities, token whether it carries nextPageToken.
Items == UNION {[1..n -> {"1", "2"}] : n \in 0..MaxItems}
Pages == {[hasList |-> h, items |-> i, token |-> t] :
            h \in BOOLEAN, i \in Items, t \in BOOLEAN}
        \ {p \in [hasList : {FALSE}, items : Items, token : BOOLEAN] : p.items # <<>>}

\* Object.keys(result).length of a parsed page.
PageKeyCount(page) ==
    (IF page.hasList THEN 1 ELSE 0) + (IF page.token THEN 1 ELSE 0)

\* An entity of a page, converted (its fieldList_ is object i).
ItemEntity(k, item, i) ==
    NewEntity([f \in {IdFieldOf(k)} |-> Str(item)], i)

ResInit ==
    /\ rKind \in Kinds
    /\ server \in ServerContents(rKind)
    /\ serverExists = TRUE
    /\ rOp = "idle"
    /\ rPc = "idle"
    /\ rEntity = <<>>
    /\ rOriginal = <<>>
    /\ rLog = <<>>
    /\ rResult = <<>>
    /\ rError = ""
    /\ rPages = <<>>
    /\ rPageIdx = 0
    /\ rResultList = <<>>
    /\ rCalls = 0

\* A call starts: the bookkeeping of the previous one is cleared.
Begin(op, pc, entity) ==
    /\ rPc \in {"idle", "done", "thrown"}
    /\ rCalls < MaxCalls
    /\ rCalls' = rCalls + 1
    /\ rOp' = op
    /\ rPc' = pc
    /\ rEntity' = entity
    /\ rOriginal' = <<>>
    /\ rLog' = <<>>
    /\ rResult' = <<>>
    /\ rError' = ""
    /\ rResultList' = <<>>
    /\ rPages' = <<>>
    /\ rPageIdx' = 0
    /\ UNCHANGED <<rKind, server, serverExists>>

\* throw new Error(response.getContentText()) leaves the operation.
Throw(message) ==
    /\ rPc' = "thrown"
    /\ rError' = message
    /\ UNCHANGED <<rResult, rOriginal, server, serverExists>>

\* update(entity) returns value: to the caller, or into delete, which goes
\* on to its DELETE request.
UpdateReturns(value) ==
    IF rOp = "update"
    THEN rPc' = "done" /\ rResult' = value
    ELSE rPc' = "delete" /\ UNCHANGED rResult

\* update(entity): called
UpdateCall ==
    /\ \E e \in CallerEntities(rKind) : Begin("update", "get", e)
    /\ UNCHANGED <<maskVars, sheetVars, bulkVars,
                   templateVars,
                   laterVars>>

\* A delete that goes straight to its DELETE request, without the archive.
DeleteCallSkipsArchive ==
    /\ \E e \in CallerEntities(rKind) : Begin("delete", "delete", e)
    /\ UNCHANGED <<maskVars, sheetVars, bulkVars,
                   templateVars,
                   laterVars>>

\* delete(entity): entity.entityStatus = 'ENTITY_STATUS_ARCHIVED', then
\* this.update(entity) is entered.
DeleteCall ==
    /\ \E e \in CallerEntities(rKind) :
          Begin("delete", "get", SetField(e, "entityStatus", Str(Archived)))
    /\ UNCHANGED <<maskVars, sheetVars, bulkVars,
                   templateVars,
                   laterVars>>

\* update: const original = this.get(entity), and the test of the mask.
UpdateGet ==
    /\ rOp \in {"update", "delete"}
    /\ rPc = "get"
    /\ \E code \in ServerCodes(rKind, getPrimaryId(rKind, rEntity)) :
          /\ rLog' = Append(rLog,
                Request("GET", getPrimaryId(rKind, rEntity), "", <<>>, code))
          /\ IF ~IsSuccess(code)
             THEN Throw(ResponseText(code))
             ELSE LET original == convertObjectToEntity(server)
                  IN  /\ rOriginal' = original
                      /\ rError' = ""
                      /\ UNCHANGED <<server, serverExists>>
                      /\ IF getPatchMask(rKind, original, rEntity) = ""
                         THEN UpdateReturns(original)
                         ELSE rPc' = "patch" /\ UNCHANGED rResult
    /\ UNCHANGED <<rKind, rOp, rEntity, rPages, rPageIdx, rResultList, rCalls>>
    /\ UNCHANGED <<maskVars, sheetVars, bulkVars,
                   templateVars,
                   laterVars>>

\* update: the PATCH to buildPatchUri_(original, entity) with entity as body.
UpdatePatch ==
    /\ rOp \in {"update", "delete"}
    /\ rPc = "patch"
    /\ \E code \in ServerCodes(rKind, getPrimaryId(rKind, rOriginal)) :
          /\ rLog' = Append(rLog,
                Request("PATCH", getPrimaryId(rKind, rOriginal),
                        getPatchMask(rKind, rOriginal, rEntity), rEntity, code))
          /\ IF ~IsSuccess(code)
             THEN Throw(ResponseText(code))
             ELSE LET patched == ApplyPatch(rKind, server,
                                    ChangedFields(rKind, rOriginal, rEntity), rEntity)
                  IN  /\ server' = patched
                      /\ UpdateReturns(convertObjectToEntity(patched))
                      /\ UNCHANGED <<rError, rOriginal, serverExists>>
    /\ UNCHANGED <<rKind, rOp, rEntity, rPages, rPageIdx, rResultList, rCalls>>
    /\ UNCHANGED <<maskVars, sheetVars, bulkVars,
                   templateVars,
                   laterVars>>

\* delete: the DELETE to buildSingleEntityUri_(entity), after update returned.
DeleteRequest ==
    /\ rOp = "delete"
    /\ rPc = "delete"
    /\ \E code \in ServerCodes(rKind, getPrimaryId(rKind, rEntity)) :
          /\ rLog' = Append(rLog,
                Request("DELETE", getPrimaryId(rKind, rEntity), "", <<>>, code))
          /\ IF ~IsSuccess(code)
             THEN Throw(ResponseText(code))
             ELSE /\ serverExists' = FALSE
                  /\ rPc' = "done"
                  /\ UNCHANGED <<rError, rOriginal, rResult, server>>
    /\ UNCHANGED <<rKind, rOp, rEntity, rPages, rPageIdx, rResultList, rCalls>>
    /\ UNCHANGED <<maskVars, sheetVars, bulkVars,
                   templateVars,
                   laterVars>>

\* create: input = Object.assign({}, entity); delete input[primaryIdField_]
CreateInput(k, entity) == RemoveField(entity, primaryIdField_(k))

\* create(entity): called
CreateCall ==
    /\ \E e \in CallerEntities(rKind) : Begin("create", "post", e)
    /\ UNCHANGED <<maskVars, sheetVars, bulkVars,
                   templateVars,
                   laterVars>>

\* create: the POST of input to the collection.
CreatePost ==
    /\ rOp = "create"
    /\ rPc = "post"
    /\ \E code \in ResponseCodes :
          /\ rLog' = Append(rLog,
                Request("POST", Undefined, "", CreateInput(rKind, rEntity), code))
          /\ IF ~IsSuccess(code)
             THEN Throw(ResponseText(code))
             ELSE LET created == Created(rKind, CreateInput(rKind, rEntity),
                                         IF serverExists THEN "2" ELSE "1")
                  IN  /\ rPc' = "done"
                      /\ rResult' = convertObjectToEntity(created)
                      /\ server' = IF serverExists THEN server ELSE created
                      /\ serverExists' = TRUE
                      /\ UNCHANGED <<rError, rOriginal>>
    /\ UNCHANGED <<rKind, rOp, rEntity, rPages, rPageIdx, rResultList, rCalls>>
    /\ UNCHANGED <<maskVars, sheetVars, bulkVars,
                   templateVars,
                   laterVars>>

\* list(parameters): called
ListCall ==
    /\ Begin("list", "fetch", <<>>)
    /\ UNCHANGED <<maskVars, sheetVars, bulkVars,
                   templateVars,
                   laterVars>>

\* The callback of list: an empty result is skipped, otherwise
\* resultList.push(...result[apiFieldName_]), which throws a TypeError when
\* the page has no such list.
ListCallbackThrows(page) == PageKeyCount(page) # 0 /\ ~page.hasList

ListCallbackResult(page, resultList) ==
    IF PageKeyCount(page) = 0 THEN resultList ELSE resultList \o page.items

\* A loop that hands every response to the callback, whatever its status.
ListFetchIgnoresStatus ==
    /\ rOp = "list"
    /\ rPc = "fetch"
    /\ \E code \in ResponseCodes : \E page \in Pages :
          LET list == ListCallbackResult(page, rResultList)
          IN  /\ page.token => Len(rPages) + 1 < MaxPages
              /\ rLog' = Append(rLog, Request("GET", Undefined, "", <<>>, code))
              /\ rPages' = Append(rPages, page)
              /\ rPageIdx' = rPageIdx + 1
              /\ IF ListCallbackThrows(page)
                 THEN Throw("TypeError") /\ UNCHANGED rResultList
                 ELSE /\ rResultList' = list
                      /\ UNCHANGED <<rError, rOriginal, server, serverExists>>
                      /\ IF page.token
                         THEN UNCHANGED <<rPc, rResult>>
                         ELSE /\ rPc' = "done"
                              /\ rResult' = [i \in 1..Len(list) |->
                                                ItemEntity(rKind, list[i], i)]
    /\ UNCHANGED <<rKind, rOp, rEntity, rCalls, maskVars, sheetVars, bulkVars,
                   templateVars,
                   laterVars>>

\* list: one round of the loop of executeGenericRequest_ (the server answers
\* with an error, or with a page that is appended to rPages; the page that
\* reaches the bound on the pages carries no nextPageToken), and after the
\* last page the map over resultList.
ListFetch ==
    /\ rOp = "list"
    /\ rPc = "fetch"
    /\ \/ \E code \in {c \in ResponseCodes : ~IsSuccess(c)} :
             /\ rLog' = Append(rLog, Request("GET", Undefined, "", <<>>, code))
             /\ Throw(ResponseText(code))
             /\ UNCHANGED <<rResultList, rPages, rPageIdx>>
       \/ \E code \in {c \in ResponseCodes : IsSuccess(c)} : \E page \in Pages :
             LET list == ListCallbackResult(page, rResultList)
             IN  /\ page.token => Len(rPages) + 1 < MaxPages
                 /\ rLog' = Append(rLog, Request("GET", Undefined, "", <<>>, code))
                 /\ rPages' = Append(rPages, page)
                 /\ rPageIdx' = rPageIdx + 1
                 /\ IF ListCallbackThrows(page)
                    THEN Throw("TypeError") /\ UNCHANGED rResultList
                    ELSE /\ rResultList' = list
                         /\ UNCHANGED <<rError, rOriginal, server, serverExists>>
                         /\ IF page.token
                            THEN UNCHANGED <<rPc, rResult>>
                            ELSE /\ rPc' = "done"
                                 /\ rResult' = [i \in 1..Len(list) |->
                                                   ItemEntity(rKind, list[i], i)]
    /\ UNCHANGED <<rKind, rOp, rEntity, rCalls, maskVars, sheetVars, bulkVars,
                   templateVars,
                   laterVars>>

Init ==
    ResInit /\ MaskParked /\ SheetParked /\ BulkParked /\ TemplateParked
    /\ LaterParked

Next ==
    \/ UpdateCall
    \/ DeleteCall
    \/ CreateCall
    \/ ListCall
    \/ UpdateGet
    \/ UpdatePatch
    \/ DeleteRequest
    \/ CreatePost
    \/ ListFetch

Spec == Init /\ [][Next]_vars

---------------------------------------------------------------------------
(* Claims about the resource operations (Spec) *)

NoPatch == \A i \in 1..Len(rLog) : rLog[i].method # "PATCH"

\* An HTTP status outside 200..299.
HttpError(code) == code < 200 \/ code > 299

\* C1: when the patch mask between the fetched state and entity is empty,
\* update issues no PATCH and returns the fetched original; in particular so
\* for every entity whose field values equal the server state by content.
C1_NoPatchWhenNothingChanged ==
    (rOp = "update" /\ rPc = "done") =>
        /\ getPatchMask(rKind, rOriginal, rEntity) = ""
              => (NoPatch /\ rResult = rOriginal)
        /\ DifferingFields(rOriginal, rEntity) = {}
              => (NoPatch /\ rResult = rOriginal)

\* C5: a DELETE request is issued only by delete, after it set entityStatus
\* to ARCHIVED and update(entity) ran to completion: the successful GET of
\* the same entity and, when the mask is not empty, the successful PATCH
\* carrying the archived entity come before it.
C5_DeleteIsPrecededByArchiveUpdate ==
    \A i \in 1..Len(rLog) : rLog[i].method = "DELETE" =>
        /\ rOp = "delete"
        /\ getValueByDottedFieldName(rEntity, "entityStatus") = Str(Archived)
        /\ i > 1
        /\ rLog[1].method = "GET"
        /\ rLog[1].code = 200
        /\ rLog[1].id = rLog[i].id
        /\ IF getPatchMask(rKind, rOriginal, rEntity) = ""
           THEN i = 2
           ELSE /\ i = 3
                /\ rLog[2].method = "PATCH"
                /\ rLog[2].code = 200
                /\ rLog[2].mask = getPatchMask(rKind, rOriginal, rEntity)
                /\ rLog[2].body = rEntity

\* C5 witness: delete has issued GET, PATCH and DELETE.
C5_Witness ==
    /\ rOp = "delete"
    /\ Len(rLog) = 3
    /\ rLog[2].method = "PATCH"
    /\ rLog[3].method = "DELETE"

\* C6: in delete, a failed response is the last request of the operation
\* (no DELETE after a failed archive step, no restoring request after a
\* failed DELETE) and its body text is the error thrown to the caller.
C6_DeleteFailureIsThrownAndFinal ==
    rOp = "delete" =>
        \A i \in 1..Len(rLog) : HttpError(rLog[i].code) =>
            /\ i = Len(rLog)
            /\ rPc = "thrown"
            /\ rError = ResponseText(rLog[i].code)

\* C6 witness: the DELETE request failed after a successful archive PATCH.
C6_Witness ==
    /\ rOp = "delete"
    /\ rPc = "thrown"
    /\ Len(rLog) = 3
    /\ rLog[2].method = "PATCH"
    /\ rLog[2].code = 200
    /\ rLog[3].method = "DELETE"
    /\ HttpError(rLog[3].code)

\* C7: the POST body of create lacks the primary-identifier field of the
\* kind and carries every other own field of entity unchanged.
C7_CreateBodyStripsOnlyTheId ==
    \A i \in 1..Len(rLog) : rLog[i].method = "POST" =>
        /\ IdFieldOf(rKind) \notin DOMAIN rLog[i].body
        /\ \A f \in DOMAIN rEntity \ {IdFieldOf(rKind)} :
              f \in DOMAIN rLog[i].body /\ rLog[i].body[f] = rEntity[f]

RECURSIVE PageItems(_)
\* The entities of all pages, in page order.
PageItems(pages) ==
    IF pages = <<>> THEN <<>> ELSE Head(pages).items \o PageItems(Tail(pages))

\* C8: against a server that answers every page, list returns the entities
\* of all pages in page order, each as an entity.
C8_ListConcatenatesAllPages ==
    (/\ rOp = "list"
     /\ rPc \in {"done", "thrown"}
     /\ \A i \in 1..Len(rLog) : rLog[i].code = 200)
        => /\ rPc = "done"
           /\ rResult = [i \in 1..Len(PageItems(rPages)) |->
                            ItemEntity(rKind, PageItems(rPages)[i], i)]

\* The responses of the operation that were handed to the callback.
CallbackCalls == rPageIdx

C29_EveryTwoHundredStatusIsSuccess ==
    \A i \in 1..Len(rLog) : ~HttpError(rLog[i].code) =>
        ~(/\ i = Len(rLog)
          /\ rPc = "thrown"
          /\ rError = ResponseText(rLog[i].code))

---------------------------------------------------------------------------
(* SpecSheet: one uploadChanges pass over the rows of a sheet, by            *)
(* DV360Sheet (the action column selects the operation) or by the older     *)
(* ApiResource (the primary id, _rawData and the patch mask select it).     *)
(* A row is a record of its cells: id (the primary id column), displayName, *)
(* rawData (_rawData), logs (_logs), action and targeting                   *)
(* (_targetingOptions); key is the position the row had before the pass.    *)

MaxRows == 3

\* SheetConfig: headerRow defaults to 4 and the data starts on the next row.
headerRow == 4
rangeStartRow == headerRow + 1

targetingOptionsPlaceholder_ == "<placeholder for targeting options>"

\* The texts a cell that is parsed as JSON holds in the model: "{..}" is the
\* JSON of the entity with id "1" and displayName "a", "[]" the empty array,
\* and "oops" is not JSON.
EntityJson == "{..}"
JsonParseThrows(text) == text \notin {EntityJson, "[]", "1", "2"}

\* JSON.parse(EntityJson)
ParsedEntityJson == [id |-> Str("1"), displayName |-> Str("a")]

ApiErrorMessage == "api error"
TargetingErrorMessage == "targeting error"
ReferenceErrorMessage == "headerFields_ is not defined"
SyntaxErrorMessage == "Unexpected token"

\* The id the server gives a created entity.
CreatedId == "2"

\* The texts of an action cell: the three actions, none, and a text that is
\* none of the three.
SheetActions == {"", "CREATE", "MODIFY", "DELETE", "UPSERT"}

\* The rows a DV360Sheet sheet starts with: the _targetingOptions cell is
\* empty or holds a text that is not JSON.
DV360SheetRows ==
    {[id |-> id, displayName |-> "a",
      rawData |-> IF id = "" THEN "" ELSE EntityJson,
      logs |-> "", action |-> action, targeting |-> targeting] :
        id \in {"", "1"}, action \in SheetActions,
        targeting \in {"", "oops"}}

\* The rows an ApiResource sheet starts with (it has neither an action nor a
\* _targetingOptions column).
ApiResourceRows ==
    {[id |-> id, displayName |-> displayName, rawData |-> rawData,
      logs |-> "", action |-> "", targeting |-> ""] :
        id \in {"", "1"}, displayName \in {"a", "b"},
        rawData \in {"", "DELETE", EntityJson, "oops"}}

SheetRows(class) ==
    IF class = "DV360Sheet" THEN DV360SheetRows ELSE ApiResourceRows

WithKeys(rows) ==
    [i \in 1..Len(rows) |->
        [key |-> i, id |-> rows[i].id, displayName |-> rows[i].displayName,
         rawData |-> rows[i].rawData, logs |-> rows[i].logs,
         action |-> rows[i].action, targeting |-> rows[i].targeting]]

Sheets(class) ==
    {WithKeys(rows) : rows \in UNION {[1..n -> SheetRows(class)] : n \in 1..MaxRows}}

SheetInit ==
    /\ sClass \in {"DV360Sheet", "ApiResource"}
    /\ sTargeting \in (IF sClass = "DV360Sheet" THEN BOOLEAN ELSE {FALSE})
    /\ sheet \in Sheets(sClass)
    /\ sPc = "idle"
    /\ sRowsData = <<>>
    /\ sGroups = NoGroups
    /\ sTodo = <<>>
    /\ sToDelete = <<>>
    /\ sEvents = <<>>
    /\ sRemoved = <<>>
    /\ sError = ""

\* ---- SheetUtil ----

\* SheetUtil.outputInRange over the cells named in 'cells' of one sheet row.
outputInRange(sh, rowNumber, cells) ==
    LET pos == rowNumber - rangeStartRow + 1
    IN  IF pos \in 1..Len(sh)
        THEN [sh EXCEPT ![pos] = [c \in DOMAIN @ |->
                                    IF c \in DOMAIN cells THEN cells[c] ELSE @[c]]]
        ELSE sh

\* A removal that takes the number for an index into the data rows.
deleteRowAtDataIndex(sh, number) ==
    IF number \in 1..Len(sh)
    THEN SubSeq(sh, 1, number - 1) \o SubSeq(sh, number + 1, Len(sh))
    ELSE sh

\* sheet.deleteRow(number): the rows below move up by one.
deleteRow(sh, number) ==
    LET pos == number - rangeStartRow + 1
    IN  IF pos \in 1..Len(sh)
        THEN SubSeq(sh, 1, pos - 1) \o SubSeq(sh, pos + 1, Len(sh))
        ELSE sh

RECURSIVE deleteEach(_, _)
deleteEach(sh, numbers) ==
    IF numbers = <<>> THEN sh
    ELSE deleteEach(deleteRow(sh, Head(numbers)), Tail(numbers))

\* The row numbers as given, with no account of the rows removed before.
reindexedRowsUnshifted(rowNumbers) == rowNumbers

\* rowNumbers.map((number, index) => number - index)
reindexedRows(rowNumbers) ==
    [i \in 1..Len(rowNumbers) |-> rowNumbers[i] - (i - 1)]

\* SheetUtil.deleteSheetRows: reindexedRows.forEach(deleteRow)
deleteSheetRows(sh, rowNumbers) == deleteEach(sh, reindexedRows(rowNumbers))

RECURSIVE deleteRowCalls(_, _)
\* The deleteRow calls of reindexedRows.forEach: the number passed, and the
\* key of the row that call removes (0 when the number is below the data).
deleteRowCalls(sh, numbers) ==
    IF numbers = <<>> THEN <<>>
    ELSE LET pos == Head(numbers) - rangeStartRow + 1
         IN  <<[number |-> Head(numbers),
                key |-> IF pos \in 1..Len(sh) THEN sh[pos].key ELSE 0]>>
             \o deleteRowCalls(deleteRow(sh, Head(numbers)), Tail(numbers))

\* ---- DV360Sheet ----

\* translateTargetingOptionsFromCell throws: JSON.parse(cell).map(...)
TargetingCellThrows(cell) ==
    /\ cell # ""
    /\ cell # targetingOptionsPlaceholder_
    /\ (JsonParseThrows(cell) \/ cell # "[]")

\* translateTargetingOptionsFromCell, when it returns: the cells it returns
\* for are the empty one, the placeholder and "[]", all of which give [].
translateTargetingOptionsFromCell(cell) == <<>>

\* buildPayloadObject_: the special columns are skipped, and so is an empty cell.
buildPayloadObject_(row) ==
    [id |-> row.id, displayName |-> row.displayName]

\* readAllEntitiesFromSheet_: one RowData per data row.
readAllEntitiesFromSheet_(sh) ==
    [i \in 1..Len(sh) |->
        [payload |-> buildPayloadObject_(sh[i]),
         sheetIndex |-> i - 1,
         action |-> sh[i].action,
         targetingOptions |-> translateTargetingOptionsFromCell(sh[i].targeting)]]

\* rowsData.filter((data) => data.action === action)
ActionGroup(rowsData, action) ==
    SelectSeq(rowsData, LAMBDA data : data.action = action)

\* JSON.stringify of an array of targeting options.
StringifyTargetingOptions(options) ==
    IF options = <<>> THEN "[]" ELSE "[..]"

\* buildSheetRowData_: '' for _logs and action, the JSON of the entity for
\* _rawData, the placeholder for _targetingOptions, the field otherwise.
buildSheetRowData_(entity) ==
    [id |-> entity.id, displayName |-> entity.displayName,
     rawData |-> EntityJson, logs |-> "", action |-> "",
     targeting |-> targetingOptionsPlaceholder_]

\* modificationCallback_: the whole row, then 'OK' into _logs.
modificationCallback_(sh, response, sheetIndex) ==
    outputInRange(outputInRange(sh, sheetIndex + rangeStartRow,
                                buildSheetRowData_(response)),
                  sheetIndex + rangeStartRow, [logs |-> "OK"])

\* writeOutTargetingOptions
writeOutTargetingOptions(sh, text, sheetIndex) ==
    outputInRange(sh, rangeStartRow + sheetIndex, [targeting |-> text])

\* An error handler that writes the message at the start of the row, as
\* modificationCallback_ writes the entity: the message lands in the first
\* cell of the row.
handleAPIErrorAtRowStart(sh, data, message) ==
    outputInRange(sh, data.sheetIndex + rangeStartRow, [id |-> message])

\* handleAPIError_: error.message into _logs.
handleAPIError_(sh, data, message) ==
    outputInRange(sh, data.sheetIndex + rangeStartRow, [logs |-> message])

\* The answers the API can give to the request for a row: an entity without
\* an id can be neither fetched nor deleted.
ApiOutcomes(data) ==
    IF data.action # "CREATE" /\ data.payload.id = "" THEN {FALSE} ELSE BOOLEAN

\* updateTargetingOptions_ calls the API only for an entity that has
\* updateTargetingOptions.
TargetingOutcomes(apiOk) ==
    IF apiOk /\ sTargeting THEN BOOLEAN ELSE {TRUE}

SheetEvent(op, data, ok) ==
    [op |-> op, key |-> sheet[data.sheetIndex + 1].key, ok |-> ok]

\* The end of a forEach step: after the last row of the last group,
\* deleteEntries_ calls SheetUtil.deleteSheetRows and uploadChanges returns.
SheetStepEnds(sheetAfter, toDelete) ==
    /\ sTodo' = Tail(sTodo)
    /\ sToDelete' = toDelete
    /\ IF Tail(sTodo) = <<>>
       THEN /\ sheet' = deleteSheetRows(sheetAfter, toDelete)
            /\ sRemoved' = deleteRowCalls(sheetAfter, reindexedRows(toDelete))
            /\ sPc' = "done"
       ELSE /\ sheet' = sheetAfter
            /\ sRemoved' = sRemoved
            /\ sPc' = "running"
    /\ UNCHANGED <<sClass, sTargeting, sRowsData, sGroups, sError>>

\* uploadChanges up to the first row: readAllEntitiesFromSheet_ (outside any
\* try block) and the three filters.
SheetUploadChanges ==
    /\ sClass = "DV360Sheet"
    /\ sPc = "idle"
    /\ IF \E i \in 1..Len(sheet) : TargetingCellThrows(sheet[i].targeting)
       THEN /\ sPc' = "thrown"
            /\ sError' = SyntaxErrorMessage
            /\ UNCHANGED <<sheet, sRowsData, sGroups, sTodo>>
       ELSE LET rowsData == readAllEntitiesFromSheet_(sheet)
                groups == [create |-> ActionGroup(rowsData, "CREATE"),
                           update |-> ActionGroup(rowsData, "MODIFY"),
                           delete |-> ActionGroup(rowsData, "DELETE")]
                todo == groups.create \o groups.update \o groups.delete
            IN  /\ sRowsData' = rowsData
                /\ sGroups' = groups
                /\ sTodo' = todo
                /\ sheet' = IF todo = <<>> THEN deleteSheetRows(sheet, <<>>)
                            ELSE sheet
                /\ sPc' = IF todo = <<>> THEN "done" ELSE "running"
                /\ sError' = ""
    /\ UNCHANGED <<sClass, sTargeting, sToDelete, sEvents, sRemoved, maskVars,
                   resVars, bulkVars,
                   templateVars,
                   laterVars>>

\* The entity create returns for a payload.
CreatedEntity(payload) == [id |-> CreatedId, displayName |-> payload.displayName]

\* One step of createNewEntities_ (create, updateTargetingOptions_,
\* modificationCallback_, writeOutTargetingOptions) or of updateData_ (the
\* same with update), with its catch.
SheetModifyStep(op, data, entity, apiOk, toOk) ==
    LET written ==
            IF ~apiOk THEN handleAPIError_(sheet, data, ApiErrorMessage)
            ELSE IF ~toOk
                 THEN handleAPIError_(sheet, data, TargetingErrorMessage)
            ELSE writeOutTargetingOptions(
                     modificationCallback_(sheet, entity, data.sheetIndex),
                     StringifyTargetingOptions(data.targetingOptions),
                     data.sheetIndex)
        events ==
            <<SheetEvent(op, data, apiOk)>> \o
            (IF apiOk /\ sTargeting
             THEN <<SheetEvent("targeting", data, toOk)>> ELSE <<>>)
    IN  /\ sEvents' = sEvents \o events
        /\ SheetStepEnds(written, sToDelete)

SheetCreateRow ==
    /\ sClass = "DV360Sheet"
    /\ sPc = "running"
    /\ sTodo # <<>>
    /\ Head(sTodo).action = "CREATE"
    /\ \E apiOk \in ApiOutcomes(Head(sTodo)) :
       \E toOk \in TargetingOutcomes(apiOk) :
          SheetModifyStep("create", Head(sTodo),
                          CreatedEntity(Head(sTodo).payload), apiOk, toOk)
    /\ UNCHANGED <<maskVars, resVars, bulkVars,
                   templateVars,
                   laterVars>>

SheetUpdateRow ==
    /\ sClass = "DV360Sheet"
    /\ sPc = "running"
    /\ sTodo # <<>>
    /\ Head(sTodo).action = "MODIFY"
    /\ \E apiOk \in ApiOutcomes(Head(sTodo)) :
       \E toOk \in TargetingOutcomes(apiOk) :
          SheetModifyStep("update", Head(sTodo), Head(sTodo).payload,
                          apiOk, toOk)
    /\ UNCHANGED <<maskVars, resVars, bulkVars,
                   templateVars,
                   laterVars>>

\* One step of deleteEntries_.
SheetDeleteRow ==
    /\ sClass = "DV360Sheet"
    /\ sPc = "running"
    /\ sTodo # <<>>
    /\ Head(sTodo).action = "DELETE"
    /\ \E apiOk \in ApiOutcomes(Head(sTodo)) :
          LET data == Head(sTodo)
              rowNumber == data.sheetIndex + rangeStartRow
          IN  /\ sEvents' = Append(sEvents, SheetEvent("delete", data, apiOk))
              /\ IF apiOk
                 THEN SheetStepEnds(
                          outputInRange(sheet, rowNumber, [logs |-> "DELETED"]),
                          Append(sToDelete, rowNumber))
                 ELSE SheetStepEnds(
                          handleAPIError_(sheet, data, ApiErrorMessage),
                          sToDelete)
    /\ UNCHANGED <<maskVars, resVars, bulkVars,
                   templateVars,
                   laterVars>>

\* ---- ApiResource ----

\* parseCellContent_: JSON.parse, or the text itself if that throws.
parseCellContent_(text) ==
    IF JsonParseThrows(text) THEN Str(text)
    ELSE IF text \in NumericStrings THEN Num(text)
    ELSE Obj(1, text)

\* buildPayloadObject_ of ApiResource: an empty primary id cell gives the
\* entry [], which Object.fromEntries turns into the key "undefined".
ApiResource_buildPayloadObject_(row) ==
    IF row.id = ""
    THEN [displayName |-> parseCellContent_(row.displayName),
          undefined |-> Undefined]
    ELSE [displayName |-> parseCellContent_(row.displayName),
          id |-> parseCellContent_(row.id)]

\* Util.listDottedFields of a payload: its keys, in the order of the columns.
listDottedFields(payload) ==
    SelectSeq(<<"displayName", "id", "undefined">>,
              LAMBDA field : field \in DOMAIN payload)

\* patchMask_ throws: JSON.parse(rawData)
PatchMaskThrows(rawData) ==
    rawData # "" /\ rawData # "DELETE" /\ JsonParseThrows(rawData)

\* patchMask_
patchMask_(payloadObject, rawData) ==
    IF rawData = "" \/ rawData = "DELETE" THEN ""
    ELSE Join(SelectSeq(listDottedFields(payloadObject),
                        LAMBDA field :
                            ~LooseEquals(
                                getValueByDottedFieldName(payloadObject, field),
                                getValueByDottedFieldName(ParsedEntityJson, field))),
              ",")

\* readAllEntitiesFromSheet_ of ApiResource
ApiResource_readAllEntitiesFromSheet_(sh) ==
    [i \in 1..Len(sh) |->
        [entityId |-> sh[i].id,
         rawData |-> sh[i].rawData,
         payload |-> ApiResource_buildPayloadObject_(sh[i]),
         patchMask |-> patchMask_(ApiResource_buildPayloadObject_(sh[i]),
                                  sh[i].rawData),
         sheetIndex |-> i - 1]]

\* isDataUpdated_ without the test of the patch mask.
isDataUpdatedIgnoringMask(data) == data.entityId # ""

isDataUpdated_(data) == data.patchMask # "" /\ data.entityId # ""

isDataNew_(data) == data.entityId = "" /\ data.rawData = ""

isDataMarkedForDeletion_(data) == data.entityId # "" /\ data.rawData = "DELETE"

\* uploadChanges of ApiResource up to the first request.
ApiResourceUploadChanges ==
    /\ sClass = "ApiResource"
    /\ sPc = "idle"
    /\ IF \E i \in 1..Len(sheet) : PatchMaskThrows(sheet[i].rawData)
       THEN /\ sPc' = "thrown"
            /\ sError' = SyntaxErrorMessage
            /\ UNCHANGED <<sRowsData, sGroups, sTodo>>
       ELSE LET objectData == ApiResource_readAllEntitiesFromSheet_(sheet)
                groups ==
                    [create |-> SelectSeq(objectData, isDataNew_),
                     update |-> SelectSeq(objectData, isDataUpdated_),
                     delete |-> SelectSeq(objectData, isDataMarkedForDeletion_)]
                todo == groups.create \o groups.update \o groups.delete
            IN  /\ sRowsData' = objectData
                /\ sGroups' = groups
                /\ sTodo' = todo
                /\ sPc' = IF todo = <<>> THEN "done" ELSE "running"
                /\ sError' = ""
    /\ UNCHANGED <<sClass, sTargeting, sheet, sToDelete, sEvents, sRemoved,
                   maskVars, resVars, bulkVars,
                   templateVars,
                   laterVars>>

\* The request for the first row of the first non-empty group: both
\* modificationCallback_ and modificationErrback_ read the undeclared variable
\* headerFields_, so whatever the API answers, a ReferenceError leaves
\* executeGenericRequest_ through its catch block and ends the pass.
ApiResourceRequest ==
    /\ sClass = "ApiResource"
    /\ sPc = "running"
    /\ sTodo # <<>>
    /\ \E apiOk \in BOOLEAN :
          LET data == Head(sTodo)
              op == IF isDataNew_(data) THEN "create"
                    ELSE IF isDataMarkedForDeletion_(data) THEN "delete"
                    ELSE "update"
          IN  sEvents' = Append(sEvents, SheetEvent(op, data, apiOk))
    /\ sTodo' = Tail(sTodo)
    /\ sPc' = "thrown"
    /\ sError' = ReferenceErrorMessage
    /\ UNCHANGED <<sClass, sTargeting, sheet, sRowsData, sGroups, sToDelete,
                   sRemoved, maskVars, resVars, bulkVars,
                   templateVars,
                   laterVars>>

InitSheet ==
    SheetInit /\ MaskParked /\ ResParked /\ BulkParked /\ TemplateParked
    /\ LaterParked

NextSheet ==
    \/ SheetUploadChanges
    \/ SheetCreateRow
    \/ SheetUpdateRow
    \/ SheetDeleteRow
    \/ ApiResourceUploadChanges
    \/ ApiResourceRequest

SpecSheet == InitSheet /\ [][NextSheet]_vars

---------------------------------------------------------------------------
(* Claims about the sheet passes (SpecSheet) *)

\* The rows of the sheet before the pass that the action column marks.
EventsOf(key) == {i \in 1..Len(sEvents) : sEvents[i].key = key}

SheetIndexes(group) == {group[i].sheetIndex : i \in 1..Len(group)}

MarkedIndexes ==
    SheetIndexes(sGroups.create) \cup SheetIndexes(sGroups.update)
        \cup SheetIndexes(sGroups.delete)

\* C9: a failure on one row of a DV360Sheet pass never aborts the pass: the
\* pass does not throw, and once it is over every marked row was sent to the
\* API and every row whose request failed holds the error message in _logs.
C9_RowFailureNeverAbortsThePass ==
    sClass = "DV360Sheet" =>
        /\ sPc # "thrown"
        /\ sPc = "done" =>
              /\ \A i \in MarkedIndexes : EventsOf(i + 1) # {}
              /\ \A e \in 1..Len(sEvents) :
                    ~sEvents[e].ok =>
                        \E r \in 1..Len(sheet) :
                            /\ sheet[r].key = sEvents[e].key
                            /\ sheet[r].logs \in {ApiErrorMessage,
                                                  TargetingErrorMessage}

\* C10: the create, update and delete groups of one pass are pairwise
\* disjoint (by the action column for DV360Sheet, by the three predicates for
\* ApiResource), and no row is sent to the API by two of the operations.
C10_GroupsArePairwiseDisjoint ==
    /\ SheetIndexes(sGroups.create) \cap SheetIndexes(sGroups.update) = {}
    /\ SheetIndexes(sGroups.create) \cap SheetIndexes(sGroups.delete) = {}
    /\ SheetIndexes(sGroups.update) \cap SheetIndexes(sGroups.delete) = {}
    /\ \A i, j \in 1..Len(sEvents) :
          (/\ sEvents[i].key = sEvents[j].key
           /\ sEvents[i].op # "targeting"
           /\ sEvents[j].op # "targeting") => i = j

\* An ApiResource pass that found a row to patch and a row to delete, and a
\* DV360Sheet pass is covered by the same formula.
C10_Witness ==
    /\ sClass = "ApiResource"
    /\ sGroups.update # <<>>
    /\ sGroups.delete # <<>>
    /\ sEvents # <<>>

\* The row of the sheet that had position key before the pass.
RowOfKey(key) == CHOOSE r \in 1..Len(sheet) : sheet[r].key = key

\* A row that asks for something (a non-empty action cell for DV360Sheet,
\* the DELETE marker in _rawData for ApiResource) and is in none of the
\* three groups.
Unclassified(i) ==
    /\ (i - 1) \notin MarkedIndexes
    /\ IF sClass = "DV360Sheet" THEN sRowsData[i].action # ""
       ELSE sRowsData[i].rawData = "DELETE"

\* C11: a row that falls into none of the create, update and delete groups
\* gets an error in its own log cell during the pass and is sent to no
\* operation.
C11_UnclassifiedRowGetsAnError ==
    sPc = "done" =>
        \A i \in 1..Len(sRowsData) :
            Unclassified(i) =>
                /\ EventsOf(i) = {}
                /\ \E r \in 1..Len(sheet) : sheet[r].key = i /\ sheet[r].logs # ""

\* A row with no identifier, no raw data and no action.
IsNewRow(i) ==
    IF sClass = "DV360Sheet"
    THEN sRowsData[i].payload.id = "" /\ sRowsData[i].action = ""
    ELSE sRowsData[i].entityId = "" /\ sRowsData[i].rawData = ""

\* C12: once a pass that read the sheet is over, create was invoked for
\* every row with empty raw data, empty identifier and no action, and where
\* the call succeeded the row holds the new identifier, the raw-data JSON
\* of the created entity and the status OK.
C12_NewRowIsCreatedAndWrittenBack ==
    (sPc \in {"done", "thrown"} /\ sRowsData # <<>>) =>
        \A i \in 1..Len(sRowsData) :
            IsNewRow(i) =>
                \E e \in EventsOf(i) :
                    /\ sEvents[e].op = "create"
                    /\ sEvents[e].ok =>
                          /\ sheet[RowOfKey(i)].id = CreatedId
                          /\ sheet[RowOfKey(i)].rawData = EntityJson
                          /\ sheet[RowOfKey(i)].logs = "OK"

\* Every row of the delete group has had its delete call.
AllDeletesAttempted ==
    \A i \in SheetIndexes(sGroups.delete) :
        \E e \in EventsOf(i + 1) : sEvents[e].op = "delete"

DeletedKeys ==
    {sEvents[e].key : e \in {x \in 1..Len(sEvents) :
                                sEvents[x].op = "delete" /\ sEvents[x].ok}}

\* The keys of the rows whose delete call failed.
FailedDeleteKeys ==
    {sEvents[e].key : e \in {x \in 1..Len(sEvents) :
                                sEvents[x].op = "delete" /\ ~sEvents[x].ok}}

\* C14: after deleteEntries_, the rows removed are exactly the rows whose
\* delete call succeeded; every other row is still there, in its original
\* relative order, and a row that was not deleted (its delete failed, or it
\* was in no group) keeps its cells, the log of a failed row holding the
\* error.
C14_ExactlyTheDeletedRowsAreRemoved ==
    (sClass = "DV360Sheet" /\ sPc = "done") =>
        /\ Len(sheet) = Len(sRowsData) - Cardinality(DeletedKeys)
        /\ \A r \in 1..Len(sheet) : sheet[r].key \notin DeletedKeys
        /\ \A r1, r2 \in 1..Len(sheet) :
              r1 < r2 => sheet[r1].key < sheet[r2].key
        /\ \A r \in 1..Len(sheet) :
              LET data == sRowsData[sheet[r].key]
              IN  (sheet[r].key \in FailedDeleteKeys
                     \/ (sheet[r].key - 1) \notin MarkedIndexes) =>
                      /\ sheet[r].id = data.payload.id
                      /\ sheet[r].displayName = data.payload.displayName
                      /\ sheet[r].action = data.action
                      /\ sheet[r].logs =
                            IF sheet[r].key \in FailedDeleteKeys
                            THEN ApiErrorMessage ELSE ""

\* C14 witness: of three DELETE rows the first and the last were deleted and
\* removed, and the one between them, whose delete failed, is left.
C14_Witness ==
    /\ sClass = "DV360Sheet"
    /\ sPc = "done"
    /\ DeletedKeys = {1, 3}
    /\ FailedDeleteKeys = {2}
    /\ Len(sheet) = 1
    /\ sheet[1].key = 2

---------------------------------------------------------------------------
(* SpecBulk: LineItemTargetingOptions.bulkUpdate(lineItem, newOptions).    *)
(* An assigned targeting option is a record of its two fields and of the    *)
(* order of its keys, which is the order JSON.stringify writes them in.     *)

MaxOptions == 2

IdFirst == <<"assignedTargetingOptionId", "targetingType">>
TypeFirst == <<"targetingType", "assignedTargetingOptionId">>

TargetingOption(id, type, keys) ==
    [assignedTargetingOptionId |-> id, targetingType |-> type, keys |-> keys]

\* The options the API lists (it writes the keys in one order), and the
\* options a caller can pass.
ListedOptions ==
    {TargetingOption(id, type, IdFirst) : id \in {"1", "2"}, type \in {"A", "B"}}
CallerOptions ==
    {TargetingOption(id, type, keys) :
        id \in {"1", "2"}, type \in {"A", "B"}, keys \in {IdFirst, TypeFirst}}

OptionLists(options) == UNION {[1..n -> options] : n \in 0..MaxOptions}

\* JSON.stringify(option): the key and value pairs in the order of the keys.
JsonStringify(option) ==
    [i \in 1..Len(option.keys) |-> <<option.keys[i], option[option.keys[i]]>>]

\* Util.isIn
isIn(object, array) ==
    \E i \in 1..Len(array) : JsonStringify(array[i]) = JsonStringify(object)

\* Util.difference
difference(left, right) == SelectSeq(left, LAMBDA object : ~isIn(object, right))

RECURSIVE TypesOf(_)
\* options.map((option) => option.targetingType)
TypesOf(options) ==
    IF options = <<>> THEN <<>>
    ELSE <<Head(options).targetingType>> \o TypesOf(Tail(options))

RECURSIVE Unique(_, _)
\* [...new Set(values)]: the first occurrence of each value, in order.
Unique(values, seen) ==
    IF values = <<>> THEN <<>>
    ELSE IF Head(values) \in seen THEN Unique(Tail(values), seen)
    ELSE <<Head(values)>> \o Unique(Tail(values), seen \cup {Head(values)})

\* The types of the options, one entry for each option.
collectTypesUndeduplicated(options) == TypesOf(options)

\* collectUniqueTypes
collectUniqueTypes(options) == Unique(TypesOf(options), {})

\* createRequests_
createRequests_(newOptions, oldOptions) ==
    LET optionsToCreate == difference(newOptions, oldOptions)
        types == collectUniqueTypes(optionsToCreate)
    IN  [i \in 1..Len(types) |->
            [targetingType |-> types[i],
             assignedTargetingOptions |->
                 SelectSeq(optionsToCreate,
                           LAMBDA option : option.targetingType = types[i])]]

\* option.assignedTargetingOptionId of each option
IdsOf(options) ==
    [i \in 1..Len(options) |-> options[i].assignedTargetingOptionId]

\* deleteRequests
deleteRequests(newOptions, oldOptions) ==
    LET optionsToDelete == difference(oldOptions, newOptions)
        types == collectUniqueTypes(optionsToDelete)
    IN  [i \in 1..Len(types) |->
            [targetingType |-> types[i],
             assignedTargetingOptionIds |->
                 IdsOf(SelectSeq(optionsToDelete,
                                 LAMBDA option : option.targetingType = types[i]))]]

BulkInit ==
    /\ tOld \in OptionLists(ListedOptions)
    /\ tNew \in OptionLists(CallerOptions)
    /\ tCreateReqs = <<>>
    /\ tDeleteReqs = <<>>
    /\ tPosts = <<>>
    /\ tPc = "init"

\* bulkUpdate up to its POST: lineItem.listTargetingOptions() (which throws
\* when the listing fails), createRequests_ and deleteRequests.
BulkUpdateCall ==
    /\ tPc = "init"
    /\ \E code \in ResponseCodes :
          IF IsSuccess(code)
          THEN /\ tCreateReqs' = createRequests_(tNew, tOld)
               /\ tDeleteReqs' = deleteRequests(tNew, tOld)
               /\ tPc' = "post"
          ELSE /\ tPc' = "thrown"
               /\ UNCHANGED <<tCreateReqs, tDeleteReqs>>
    /\ UNCHANGED <<tOld, tNew, tPosts, maskVars, resVars, sheetVars,
                   templateVars,
                   laterVars>>

\* bulkUpdate: ApiUtil.executeApiPostRequest(postUri, payload, ...)
BulkUpdatePost ==
    /\ tPc = "post"
    /\ \E code \in ResponseCodes :
          /\ tPosts' = Append(tPosts, [deleteRequests |-> tDeleteReqs,
                                       createRequests |-> tCreateReqs,
                                       code |-> code])
          /\ tPc' = IF IsSuccess(code) THEN "done" ELSE "thrown"
    /\ UNCHANGED <<tOld, tNew, tCreateReqs, tDeleteReqs, maskVars, resVars,
                   sheetVars, templateVars,
                   laterVars>>

InitBulk ==
    BulkInit /\ MaskParked /\ ResParked /\ SheetParked /\ TemplateParked
    /\ LaterParked

NextBulk ==
    \/ BulkUpdateCall
    \/ BulkUpdatePost

SpecBulk == InitBulk /\ [][NextBulk]_vars

---------------------------------------------------------------------------
(* Claims about bulkUpdate (SpecBulk) *)

\* Two options with the same fields and values, whatever the order of keys.
SameContent(a, b) ==
    /\ a.assignedTargetingOptionId = b.assignedTargetingOptionId
    /\ a.targetingType = b.targetingType

InList(option, list) == \E i \in 1..Len(list) : SameContent(option, list[i])

\* The <<type, id>> of the options the creation requests carry, and of the
\* ids the deletion requests carry.
CreatedPairs ==
    {<<tCreateReqs[g].targetingType,
       tCreateReqs[g].assignedTargetingOptions[j].assignedTargetingOptionId>> :
        <<g, j>> \in {x \in (1..MaxOptions + 1) \X (1..MaxOptions + 1) :
                        /\ x[1] \in 1..Len(tCreateReqs)
                        /\ x[2] \in 1..Len(tCreateReqs[x[1]].assignedTargetingOptions)}}

DeletedPairs ==
    {<<tDeleteReqs[g].targetingType,
       tDeleteReqs[g].assignedTargetingOptionIds[j]>> :
        <<g, j>> \in {x \in (1..MaxOptions + 1) \X (1..MaxOptions + 1) :
                        /\ x[1] \in 1..Len(tDeleteReqs)
                        /\ x[2] \in 1..Len(tDeleteReqs[x[1]].assignedTargetingOptionIds)}}

PairOf(option) == <<option.targetingType, option.assignedTargetingOptionId>>

\* C15: the creation requests carry exactly the desired options that are
\* content-equal to no current option, the deletion requests exactly the ids
\* of the current options content-equal to no desired option, and an option
\* in both lists is in neither request.
C15_RequestsAreTheContentDifference ==
    tPc \in {"post", "done"} =>
        /\ CreatedPairs =
              {PairOf(tNew[i]) : i \in {x \in 1..Len(tNew) : ~InList(tNew[x], tOld)}}
        /\ DeletedPairs =
              {PairOf(tOld[i]) : i \in {x \in 1..Len(tOld) : ~InList(tOld[x], tNew)}}

RECURSIVE Flatten(_)
\* The members of all groups, one after the other.
Flatten(groups) ==
    IF groups = <<>> THEN <<>> ELSE Head(groups) \o Flatten(Tail(groups))

Count(x, seq) == Cardinality({i \in 1..Len(seq) : seq[i] = x})

\* One group for each distinct type among the members of a side, none empty,
\* each member of the side exactly once and in the group of its own type.
\* types are the types of the groups, members the members of each group,
\* side the members of the side with their types.
WellGrouped(types, members, side) ==
    /\ \A g, h \in 1..Len(types) : types[g] = types[h] => g = h
    /\ {types[g] : g \in 1..Len(types)} = {side[i][1] : i \in 1..Len(side)}
    /\ \A g \in 1..Len(types) :
          /\ members[g] # <<>>
          /\ \A j \in 1..Len(members[g]) : members[g][j][1] = types[g]
    /\ \A i \in 1..Len(side) :
          Count(side[i], Flatten(members)) = Count(side[i], side)
    /\ Len(Flatten(members)) = Len(side)

\* The members of the creation and deletion groups as <<type, option>> and
\* <<type, id>>, and the two sides in the same form.
CreateGroupMembers ==
    [g \in 1..Len(tCreateReqs) |->
        [j \in 1..Len(tCreateReqs[g].assignedTargetingOptions) |->
            <<tCreateReqs[g].targetingType,
              tCreateReqs[g].assignedTargetingOptions[j]>>]]

DeleteGroupMembers ==
    [g \in 1..Len(tDeleteReqs) |->
        [j \in 1..Len(tDeleteReqs[g].assignedTargetingOptionIds) |->
            <<tDeleteReqs[g].targetingType,
              tDeleteReqs[g].assignedTargetingOptionIds[j]>>]]

CreateSide ==
    LET side == difference(tNew, tOld)
    IN  [i \in 1..Len(side) |-> <<side[i].targetingType, side[i]>>]

DeleteSide ==
    LET side == difference(tOld, tNew)
    IN  [i \in 1..Len(side) |->
            <<side[i].targetingType, side[i].assignedTargetingOptionId>>]

\* C16: on each side of the bulk payload there is exactly one group for each
\* distinct targetingType among that side's options, no group is empty, and
\* every option (or option id) is exactly once in the group of its own type.
C16_OneGroupPerTypeOnEachSide ==
    tPc \in {"post", "done"} =>
        /\ WellGrouped([g \in 1..Len(tCreateReqs) |-> tCreateReqs[g].targetingType],
                       CreateGroupMembers, CreateSide)
        /\ WellGrouped([g \in 1..Len(tDeleteReqs) |-> tDeleteReqs[g].targetingType],
                       DeleteGroupMembers, DeleteSide)

\* C16 witness: one creation group with two options of one type, and two
\* deletion groups.
C16_Witness ==
    /\ tPc = "post"
    /\ Len(tCreateReqs) = 1
    /\ Len(tCreateReqs[1].assignedTargetingOptions) = 2
    /\ Len(tDeleteReqs) = 2

\* C17: when the desired options are content-equal to the current ones, so
\* that there is nothing to create and nothing to delete, bulkUpdate issues
\* no bulk-edit POST.
C17_NoPostWhenNothingToDo ==
    (/\ tPc \in {"done", "thrown"}
     /\ \A i \in 1..Len(tNew) : InList(tNew[i], tOld)
     /\ \A i \in 1..Len(tOld) : InList(tOld[i], tNew)
     /\ tCreateReqs = <<>>
     /\ tDeleteReqs = <<>>)
        => tPosts = <<>>

-----------------------------------------------------------------------------
(* ApiUtil.replaceInputValues *)

MaxTokens == 3

\* A template is a sequence of pieces: literal text, or a placeholder
\* ${name} written as <<"$", name>>.
Literal == <<"text", "x">>
Placeholder(name) == <<"$", name>>
Value(v) == <<"text", v>>

ParamNames == {"a", "b"}
TemplateNames == ParamNames \cup {"c"}
ParamValues == {"1", "2"}

Templates ==
    UNION {[1..n -> {Literal} \cup {Placeholder(name) : name \in TemplateNames}] :
              n \in 1..MaxTokens}

\* Object.entries(params): the own properties in insertion order, each name
\* once.  null is a value of its own.
NullParams == [isNull |-> TRUE, entries |-> <<>>]
ParamsOf(entries) == [isNull |-> FALSE, entries |-> entries]
ParamMaps ==
    {NullParams}
    \cup {ParamsOf(<<>>)}
    \cup {ParamsOf(<<<<name, v>>>>) : name \in ParamNames, v \in ParamValues}
    \cup {ParamsOf(<<<<n1, v1>>, <<n2, v2>>>>) :
             n1 \in {"a"}, n2 \in {"b"},
             v1 \in ParamValues, v2 \in ParamValues}
    \cup {ParamsOf(<<<<n1, v1>>, <<n2, v2>>>>) :
             n1 \in {"b"}, n2 \in {"a"},
             v1 \in ParamValues, v2 \in ParamValues}

\* The first position of the piece in the text, 0 when it does not occur.
IndexOf(text, piece) ==
    IF \E i \in 1..Len(text) : text[i] = piece
    THEN CHOOSE i \in 1..Len(text) :
             /\ text[i] = piece
             /\ \A j \in 1..(i - 1) : text[j] # piece
    ELSE 0

\* output.replace('${' + name + '}', value): a string pattern replaces the
\* first occurrence only.
replace(text, name, value) ==
    LET at == IndexOf(text, Placeholder(name))
    IN  IF at = 0 THEN text ELSE [text EXCEPT ![at] = Value(value)]

RECURSIVE replaceEntries(_, _)
\* for (const [name, value] of Object.entries(params)) output = ...
replaceEntries(output, entries) ==
    IF entries = <<>> THEN output
    ELSE replaceEntries(replace(output, Head(entries)[1], Head(entries)[2]),
                        Tail(entries))

\* ApiUtil.replaceInputValues
replaceInputValues(input, params) ==
    IF params.isNull THEN input ELSE replaceEntries(input, params.entries)

TemplateInit ==
    /\ uInput \in Templates
    /\ uParams \in ParamMaps
    /\ uParams2 \in ParamMaps
    /\ uOutput = <<>>
    /\ uOutput2 = <<>>
    /\ uPc = "init"

\* The template is resolved with the first map.
ResolveFirst ==
    /\ uPc = "init"
    /\ uOutput' = replaceInputValues(uInput, uParams)
    /\ uPc' = "once"
    /\ UNCHANGED <<uInput, uParams, uParams2, uOutput2, maskVars, resVars,
                   sheetVars, bulkVars,
                   laterVars>>

\* The result is resolved with the second map.
ResolveSecond ==
    /\ uPc = "once"
    /\ uOutput2' = replaceInputValues(uOutput, uParams2)
    /\ uPc' = "twice"
    /\ UNCHANGED <<uInput, uParams, uParams2, uOutput, maskVars, resVars,
                   sheetVars, bulkVars,
                   laterVars>>

InitTemplate ==
    TemplateInit /\ MaskParked /\ ResParked /\ SheetParked /\ BulkParked
    /\ LaterParked

NextTemplate ==
    \/ ResolveFirst
    \/ ResolveSecond

SpecTemplate == InitTemplate /\ [][NextTemplate]_vars

\* The names that are keys of the map.
KeysOf(params) == {params.entries[i][1] : i \in 1..Len(params.entries)}

Occurs(text, name) == \E i \in 1..Len(text) : text[i] = Placeholder(name)

\* C18: after replaceInputValues(template, params), no ${name} whose name is
\* a key of params is left in the result, however often it occurred in the
\* template.
C18_EveryOccurrenceIsReplaced ==
    uPc \in {"once", "twice"} =>
        \A name \in KeysOf(uParams) : ~Occurs(uOutput, name)

\* A placeholder whose name is not a key of params stays where it was, and
\* null params return the input.
UnknownPlaceholdersStay ==
    uPc \in {"once", "twice"} =>
        /\ uParams.isNull => uOutput = uInput
        /\ \A i \in 1..Len(uInput) :
              (\E name \in TemplateNames \ KeysOf(uParams) :
                  uInput[i] = Placeholder(name))
                  => (Len(uOutput) = Len(uInput) /\ uOutput[i] = uInput[i])

\* C19: a placeholder whose name is not a key of params stays where it was,
\* null params return the input, and resolving with one map and then with a
\* second map of other names leaves no placeholder named in either map.
C19_TwoPassResolutionSubstitutesEveryNamedPlaceholder ==
    /\ UnknownPlaceholdersStay
    /\ (uPc = "twice" /\ KeysOf(uParams) \cap KeysOf(uParams2) = {}) =>
          \A name \in KeysOf(uParams) \cup KeysOf(uParams2) :
              ~Occurs(uOutput2, name)

-----------------------------------------------------------------------------
(* dv360api ApiUtil.executeApiRequest                                      *)
(*                                                                         *)
(* A call fetches once.  When the attempt fails and may be retried, the    *)
(* catch block refreshes the token and calls executeApiRequest again, one  *)
(* level deeper, without returning what that call returns.                 *)

EarlierParked ==
    MaskParked /\ ResParked /\ SheetParked /\ BulkParked /\ TemplateParked

maxRetries == 3

\* The responses of UrlFetchApp.fetch: a status code and a body text.
RetryCodes == {200, 201, 404}
RetryBodies == {"", EntityJson, "oops"}
RetryResponses == [code : RetryCodes, body : RetryBodies]

\* response.getResponseCode() / 100 != 2 is false: the quotient of
\* JavaScript numbers is exact, so only the code 2 * 100 passes.
ResponseCodeIsTwoHundred(code) == code = 2 * 100

\* The try block ends in the catch block: the status test threw, or
\* JSON.parse of a body that is not empty did.
AttemptFails(response) ==
    \/ ~ResponseCodeIsTwoHundred(response.code)
    \/ (response.body # "" /\ JsonParseThrows(response.body))

\* response.getContentText() ? JSON.parse(response.getContentText()) : {}
ParsedBody(response) == IF response.body = "" THEN "{}" ELSE response.body

\* What the call at nesting depth count hands to the caller of the outermost
\* call when its attempt succeeds: the catch blocks above it end without a
\* return statement.
ReturnedThroughCatch(count, value) == IF count = 0 THEN value ELSE "undefined"

\* A catch block that allows one re-attempt more.
MayRetryAlways(retryOnFailure, count) == retryOnFailure /\ count < maxRetries + 1

\* operationCount < maxRetries
MayRetry(retryOnFailure, count) == retryOnFailure /\ count < maxRetries

RetryInit ==
    /\ qRetry \in BOOLEAN
    /\ qCount = 0
    /\ qAttempts = <<>>
    /\ qRefreshes = 0
    /\ qResult = ""
    /\ qPc = "fetch"

\* One attempt succeeds: every call on the stack returns.
AttemptSucceeds ==
    /\ qPc = "fetch"
    /\ \E response \in {r \in RetryResponses : ~AttemptFails(r)} :
          /\ qAttempts' = Append(qAttempts, response)
          /\ qResult' = ReturnedThroughCatch(qCount, ParsedBody(response))
          /\ qPc' = "returned"
    /\ UNCHANGED <<qRetry, qCount, qRefreshes>>
    /\ UNCHANGED <<earlierVars, pageVars, codecVars, flatVars, uriVars>>

\* One attempt fails and the catch block retries: refreshAuthToken, then the
\* nested call with operationCount + 1.
AttemptRetried ==
    /\ qPc = "fetch"
    /\ MayRetry(qRetry, qCount)
    /\ \E response \in {r \in RetryResponses : AttemptFails(r)} :
          qAttempts' = Append(qAttempts, response)
    /\ qRefreshes' = qRefreshes + 1
    /\ qCount' = qCount + 1
    /\ UNCHANGED <<qRetry, qResult, qPc>>
    /\ UNCHANGED <<earlierVars, pageVars, codecVars, flatVars, uriVars>>

\* One attempt fails and the catch block throws: the error leaves every call
\* on the stack.
AttemptGivesUp ==
    /\ qPc = "fetch"
    /\ ~MayRetry(qRetry, qCount)
    /\ \E response \in {r \in RetryResponses : AttemptFails(r)} :
          qAttempts' = Append(qAttempts, response)
    /\ qPc' = "thrown"
    /\ UNCHANGED <<qRetry, qCount, qRefreshes, qResult>>
    /\ UNCHANGED <<earlierVars, pageVars, codecVars, flatVars, uriVars>>

InitRetry ==
    RetryInit /\ EarlierParked /\ PageParked /\ CodecParked /\ FlatParked
    /\ UriParked

NextRetry ==
    \/ AttemptSucceeds
    \/ AttemptRetried
    \/ AttemptGivesUp

SpecRetry == InitRetry /\ [][NextRetry]_vars

\* C21: with retryOnFailure the request is re-attempted at most maxRetries
\* times, the token is refreshed before each re-attempt, and the call throws
\* when the last allowed attempt fails; without it there is one attempt, and
\* a failure throws.  No call makes more than maxRetries + 1 attempts.
C21_RetriesAreBoundedAndThenThrown ==
    /\ Len(qAttempts) <= maxRetries + 1
    /\ qPc = "fetch" => qRefreshes = Len(qAttempts)
    /\ qPc \in {"returned", "thrown"} => qRefreshes = Len(qAttempts) - 1
    /\ ~qRetry => Len(qAttempts) <= 1
    /\ qPc = "thrown" =>
          /\ AttemptFails(qAttempts[Len(qAttempts)])
          /\ Len(qAttempts) = IF qRetry THEN maxRetries + 1 ELSE 1
    /\ (qPc = "fetch" /\ qAttempts # <<>>) =>
          (qRetry /\ \A i \in 1..Len(qAttempts) : AttemptFails(qAttempts[i]))
    /\ \A i \in 1..(Len(qAttempts) - 1) : AttemptFails(qAttempts[i])

\* C21 witness: the fourth attempt failed and the call threw.
C21_Witness ==
    /\ qRetry
    /\ qPc = "thrown"
    /\ Len(qAttempts) = maxRetries + 1
    /\ qRefreshes = maxRetries

\* C25: whenever the call returns, also after a failed first attempt and a
\* successful retry, it returns the parsed body of the successful response
\* (an empty object for an empty body), never undefined.
C25_ReturnsTheParsedBody ==
    qPc = "returned" =>
        /\ qResult # "undefined"
        /\ qResult = ParsedBody(qAttempts[Len(qAttempts)])

-----------------------------------------------------------------------------
(* The pagination loop of ApiUtil.executeGenericRequest_ and                *)
(* Util.modifyUrlQueryString.  A string is the sequence of its characters.  *)

MaxFetches == 3

pageTokenKey == <<"p", "a", "g", "e", "T", "o", "k", "e", "n">>
filterKey == <<"f", "i", "l", "t", "e", "r">>

\* text.startsWith(sub, i - 1)
StartsWithAt(text, sub, i) ==
    /\ i + Len(sub) - 1 <= Len(text)
    /\ \A j \in 1..Len(sub) : text[i + j - 1] = sub[j]

\* text.indexOf(sub) + 1: the first position of sub in text, 0 for none.
indexOf(text, sub) ==
    IF \E i \in 1..(Len(text) + 1) : StartsWithAt(text, sub, i)
    THEN CHOOSE i \in 1..(Len(text) + 1) :
             /\ StartsWithAt(text, sub, i)
             /\ \A j \in 1..(i - 1) : ~StartsWithAt(text, sub, j)
    ELSE 0

\* text.substring(i - 1)
substring(text, i) == SubSeq(text, i, Len(text))

\* text.replace(sub, replacement) with a string pattern: the first
\* occurrence of sub, which for the empty sub is the start of text.
replaceString(text, sub, replacement) ==
    LET at == indexOf(text, sub)
    IN  IF at = 0 THEN text
        ELSE SubSeq(text, 1, at - 1) \o replacement
                 \o substring(text, at + Len(sub))

\* The part of text before the first separator (all of it when there is none).
BeforeFirst(text, separator) ==
    LET at == indexOf(text, <<separator>>)
    IN  IF at = 0 THEN text ELSE SubSeq(text, 1, at - 1)

\* [baseUrl, queryString] = url.split('?'): the first two parts.
SplitBaseUrl(url) == BeforeFirst(url, "?")
SplitQueryString(url) ==
    BeforeFirst(substring(url, indexOf(url, <<"?">>) + 1), "?")

\* The length of [^&]* from position i.
ValueLength(text, i) == Len(BeforeFirst(substring(text, i), "&"))

RECURSIVE MatchesFrom(_, _, _)
\* queryString.match(new RegExp(`(^|&)${key}=[^&]*`, 'g')), from position i.
MatchesFrom(text, key, i) ==
    IF i > Len(text) THEN <<>>
    ELSE LET keyEq == key \o <<"=">>
             prefix == IF i = 1 /\ StartsWithAt(text, keyEq, 1) THEN 0
                       ELSE IF text[i] = "&" /\ StartsWithAt(text, keyEq, i + 1)
                            THEN 1 ELSE 2
             length == prefix + Len(keyEq)
                           + ValueLength(text, i + prefix + Len(keyEq))
         IN  IF prefix = 2 THEN MatchesFrom(text, key, i + 1)
             ELSE <<SubSeq(text, i, i + length - 1)>>
                      \o MatchesFrom(text, key, i + length)

RECURSIVE ReplaceMatches(_, _, _, _)
\* matches.forEach(...): the first match gets the value, the others go.
ReplaceMatches(queryString, matches, value, modified) ==
    IF matches = <<>> THEN queryString
    ELSE LET match == Head(matches)
             val == substring(match, indexOf(match, <<"=">>) + 1)
             replacement == IF modified THEN <<>>
                            ELSE replaceString(match, val, value)
         IN  ReplaceMatches(replaceString(queryString, match, replacement),
                            Tail(matches), value, TRUE)

\* Util.modifyUrlQueryString
modifyUrlQueryString(url, key, value) ==
    IF indexOf(url, <<"?">>) # 0
    THEN LET baseUrl == SplitBaseUrl(url)
             split == SplitQueryString(url)
             fragment == IF indexOf(split, <<"#">>) # 0
                         THEN substring(split, indexOf(split, <<"#">>))
                         ELSE <<>>
             queryString == replaceString(split, fragment, <<>>)
             matches == MatchesFrom(queryString, key, 1)
             separator == IF Len(queryString) > 0 THEN <<"&">> ELSE <<>>
         IN  baseUrl \o <<"?">>
                 \o (IF matches # <<>>
                     THEN ReplaceMatches(queryString, matches, value, FALSE)
                     ELSE queryString \o separator \o key \o <<"=">> \o value)
                 \o fragment
    ELSE url \o <<"?">> \o key \o <<"=">> \o value

\* The tokens a server can put into nextPageToken.
PageTokens == {<<"t", "1">>, <<"t", "2">>, <<"t", "3">>, <<"a">>}

\* The body of a response: with a nextPageToken or without one.
NoToken == [has |-> FALSE, token |-> <<>>]
PageResponses == {NoToken} \cup {[has |-> TRUE, token |-> t] : t \in PageTokens}

\* The URLs list() starts from: buildListUri_ without and with a filter.
ListUrls ==
    {<<"u">>, modifyUrlQueryString(<<"u">>, filterKey, <<"x">>)}

PageInit ==
    /\ pUrl \in ListUrls
    /\ pRequests = <<>>
    /\ pTokens = <<>>
    /\ pPc = "fetch"

\* One round of the loop answered with a page: the callback, then
\* morePages = result.nextPageToken != undefined and the next url.  The
\* server ends the listing with the page that reaches the bound.
PageFetched ==
    /\ pPc = "fetch"
    /\ \E response \in PageResponses :
          /\ response.has => Len(pRequests) + 1 < MaxFetches
          /\ pRequests' = Append(pRequests, pUrl)
          /\ pTokens' = Append(pTokens, response)
          /\ IF response.has
             THEN /\ pUrl' = modifyUrlQueryString(pUrl, pageTokenKey,
                                                  response.token)
                  /\ pPc' = "fetch"
             ELSE /\ pPc' = "done"
                  /\ UNCHANGED pUrl
    /\ UNCHANGED <<earlierVars, retryVars, codecVars, flatVars, uriVars>>

\* One round of the loop answered with an error status: the loop throws.
PageFailed ==
    /\ pPc = "fetch"
    /\ pRequests' = Append(pRequests, pUrl)
    /\ pPc' = "thrown"
    /\ UNCHANGED <<pUrl, pTokens>>
    /\ UNCHANGED <<earlierVars, retryVars, codecVars, flatVars, uriVars>>

InitPage ==
    PageInit /\ EarlierParked /\ RetryParked /\ CodecParked /\ FlatParked
    /\ UriParked

NextPage ==
    \/ PageFetched
    \/ PageFailed

SpecPage == InitPage /\ [][NextPage]_vars

RECURSIVE SplitOn(_, _)
\* The parts of text between the separators.
SplitOn(text, separator) ==
    IF indexOf(text, <<separator>>) = 0 THEN <<text>>
    ELSE <<BeforeFirst(text, separator)>>
             \o SplitOn(substring(text, indexOf(text, <<separator>>) + 1),
                        separator)

\* The query parameters of a URL, in order, each as <<key, value>>.
QueryParameters(url) ==
    IF indexOf(url, <<"?">>) = 0 THEN <<>>
    ELSE LET parts == SplitOn(substring(url, indexOf(url, <<"?">>) + 1), "&")
         IN  [i \in 1..Len(parts) |->
                 <<BeforeFirst(parts[i], "="),
                   substring(parts[i], Len(BeforeFirst(parts[i], "=")) + 2)>>]

\* C26: a further page is requested exactly when the previous response
\* carried nextPageToken; its URL has the query parameters of the first
\* request and after them one pageToken parameter with the latest token;
\* the loop ends with the first response without a token, after as many
\* requests as the server gave pages.
C26_NextPageCarriesTheLatestToken ==
    /\ \A i \in 2..Len(pRequests) :
          /\ pTokens[i - 1].has
          /\ SplitBaseUrl(pRequests[i]) = SplitBaseUrl(pRequests[1])
          /\ QueryParameters(pRequests[i])
                 = QueryParameters(pRequests[1])
                       \o <<<<pageTokenKey, pTokens[i - 1].token>>>>
    /\ pPc = "fetch" =>
          /\ Len(pTokens) = Len(pRequests)
          /\ pTokens # <<>> => pTokens[Len(pTokens)].has
    /\ pPc = "done" =>
          /\ Len(pRequests) = Len(pTokens)
          /\ ~pTokens[Len(pTokens)].has
          /\ \A i \in 1..(Len(pTokens) - 1) : pTokens[i].has

-----------------------------------------------------------------------------
(* DV360Sheet.buildPayloadObject_ and buildSheetRowData_ over the cells of  *)
(* one row.                                                                 *)
(*                                                                          *)
(* A cell text is the sequence of its tokens: "{", "}", ":", the quote, a   *)
(* blank and words.  A header field is the sequence of the segments of its  *)
(* dotted path.  A value is a string, an object (its entries in insertion   *)
(* order) or undefined.                                                     *)

MaxFields == 2

Quote == "\""
Blank == " "

EmptyCell == <<>>
PlainCell == <<"v">>
CompactJsonCell == <<"{", Quote, "y", Quote, ":", Quote, "v", Quote, "}">>
SpacedJsonCell ==
    <<"{", Blank, Quote, "y", Quote, ":", Blank, Quote, "v", Quote, Blank, "}">>
EmptyObjectCell == <<"{", "}">>
BrokenJsonCell == <<"{", "v">>

Cells ==
    {EmptyCell, PlainCell, CompactJsonCell, SpacedJsonCell, EmptyObjectCell,
     BrokenJsonCell}

StringValue(text) == [t |-> "string", text |-> text, entries |-> <<>>]
ObjectValue(entries) == [t |-> "object", text |-> <<>>, entries |-> entries]
UndefinedValue == [t |-> "undefined", text |-> <<>>, entries |-> <<>>]

\* The cell a value that is not text leaves in the sheet.
UndefinedCell == <<"undefined">>

rawDataColumnName_ == <<"_rawData">>
logsColumnName_ == <<"_logs">>
actionColumnName_ == <<"action">>
targetingOptionsColumnName_ == <<"_targetingOptions">>
BlankField == <<"">>

\* The header fields of a sheet: entity fields, one of them a dotted path,
\* the reserved columns and a column without a header.
HeaderFields ==
    {<<"x">>, <<"z", "y">>, BlankField, rawDataColumnName_, logsColumnName_,
     actionColumnName_, targetingOptionsColumnName_}

\* The headers of a sheet name each column once.
Headers ==
    {h \in UNION {[1..n -> HeaderFields] : n \in 1..MaxFields} :
        \A i, j \in 1..Len(h) : h[i] = h[j] => i = j}

\* The text without the blanks between its tokens.
StripBlanks(text) == SelectSeq(text, LAMBDA token : token # Blank)

\* JSON.parse(text) throws: the texts that parse are the objects with no
\* entry or with one entry whose value is a string.
JsonParseTokensThrows(text) ==
    LET s == StripBlanks(text)
    IN  ~ \/ s = <<"{", "}">>
          \/ /\ Len(s) = 9
             /\ <<s[1], s[2], s[4], s[5], s[6], s[8], s[9]>>
                    = <<"{", Quote, Quote, ":", Quote, Quote, "}">>

\* JSON.parse(text)
JsonParseTokens(text) ==
    LET s == StripBlanks(text)
    IN  IF s = <<"{", "}">> THEN ObjectValue(<<>>)
        ELSE ObjectValue(<<<<s[3], StringValue(<<s[7]>>)>>>>)

\* Util.parseCellContent
parseCellContent(data) ==
    IF data = EmptyCell THEN StringValue(<<>>)
    ELSE IF \A i \in 1..Len(data) : data[i] # "{" THEN StringValue(data)
    ELSE IF JsonParseTokensThrows(data) THEN StringValue(data)
    ELSE JsonParseTokens(data)

RECURSIVE StringifyValue(_)
\* JSON.stringify(value) of a string or an object: no blanks, the entries
\* in insertion order.
StringifyValue(value) ==
    IF value.t = "string" THEN <<Quote>> \o value.text \o <<Quote>>
    ELSE LET entries == value.entries
             Entry(i) == (IF i = 1 THEN <<>> ELSE <<",">>)
                             \o <<Quote, entries[i][1], Quote, ":">>
                             \o StringifyValue(entries[i][2])
             Joined[i \in 0..Len(entries)] ==
                 IF i = 0 THEN <<>> ELSE Joined[i - 1] \o Entry(i)
         IN  <<"{">> \o Joined[Len(entries)] \o <<"}">>

\* ob[name]
GetProperty(ob, name) ==
    IF ob.t = "object" /\ \E i \in 1..Len(ob.entries) : ob.entries[i][1] = name
    THEN ob.entries[CHOOSE i \in 1..Len(ob.entries) : ob.entries[i][1] = name][2]
    ELSE UndefinedValue

\* ob[name] = value: an own property keeps its place, a new one is last.
SetProperty(ob, name, value) ==
    IF \E i \in 1..Len(ob.entries) : ob.entries[i][1] = name
    THEN ObjectValue([i \in 1..Len(ob.entries) |->
             IF ob.entries[i][1] = name THEN <<name, value>> ELSE ob.entries[i]])
    ELSE ObjectValue(Append(ob.entries, <<name, value>>))

RECURSIVE setValueByDottedFieldName(_, _, _)
\* Util.setValueByDottedFieldName: subObject = ob[first] || {}
setValueByDottedFieldName(ob, fieldName, value) ==
    IF Len(fieldName) = 1 THEN SetProperty(ob, fieldName[1], value)
    ELSE LET found == GetProperty(ob, fieldName[1])
             subObject == IF found.t = "object" THEN found ELSE ObjectValue(<<>>)
         IN  SetProperty(ob, fieldName[1],
                 setValueByDottedFieldName(subObject, Tail(fieldName), value))

RECURSIVE getValueByDottedPath(_, _)
\* Util.getValueByDottedFieldName
getValueByDottedPath(ob, fieldName) ==
    IF ob.t = "undefined" THEN UndefinedValue
    ELSE IF Len(fieldName) = 1 THEN GetProperty(ob, fieldName[1])
    ELSE getValueByDottedPath(GetProperty(ob, fieldName[1]), Tail(fieldName))

\* A test that takes every column for an entity field.
fieldNameIsNeverSpecial(field) == FALSE

\* fieldNameIsSpecial_
fieldNameIsSpecial_(field) ==
    \/ field = rawDataColumnName_
    \/ field = logsColumnName_
    \/ field = actionColumnName_
    \/ field = targetingOptionsColumnName_

\* translateCellIntoValue and translateValueIntoCell of a sheet whose
\* configuration has no cell translator (cellTranslators = {}).
translateCellIntoValue(fieldName, cellValue) == cellValue
translateValueIntoCell(fieldName, value) == value

RECURSIVE PayloadFrom(_, _, _, _)
\* this.headerFields_.forEach((field, index) => ...) from column index on.
PayloadFrom(header, rowData, index, payloadObject) ==
    IF index > Len(header) THEN payloadObject
    ELSE LET field == header[index]
             value == parseCellContent(rowData[index])
         IN  IF fieldNameIsSpecial_(field) \/ value = StringValue(<<>>)
             THEN PayloadFrom(header, rowData, index + 1, payloadObject)
             ELSE PayloadFrom(header, rowData, index + 1,
                      setValueByDottedFieldName(payloadObject, field,
                          translateCellIntoValue(field, value)))

\* DV360Sheet.buildPayloadObject_
DV360Sheet_buildPayloadObject_(header, rowData) ==
    PayloadFrom(header, rowData, 1, ObjectValue(<<>>))

\* DV360Sheet.buildSheetRowData_
DV360Sheet_buildSheetRowData_(header, entity) ==
    [index \in 1..Len(header) |->
        LET field == header[index]
            value == getValueByDottedPath(entity, field)
        IN  IF field = BlankField \/ field = logsColumnName_
               \/ field = actionColumnName_
            THEN EmptyCell
            ELSE IF field = rawDataColumnName_ THEN StringifyValue(entity)
            ELSE IF field = targetingOptionsColumnName_
                 THEN translateValueIntoCell(field, <<targetingOptionsPlaceholder_>>)
            ELSE translateValueIntoCell(field,
                     IF value.t = "string" THEN value.text
                     ELSE IF value.t = "undefined" THEN UndefinedCell
                     ELSE StringifyValue(value))]

CodecInit ==
    /\ kHeader \in Headers
    /\ kRow \in [1..Len(kHeader) -> Cells]
    /\ kPayload = <<>>
    /\ kRowOut = <<>>
    /\ kPc = "init"

\* The row is read into a payload.
BuildPayload ==
    /\ kPc = "init"
    /\ kPayload' = DV360Sheet_buildPayloadObject_(kHeader, kRow)
    /\ kPc' = "payload"
    /\ UNCHANGED <<kHeader, kRow, kRowOut>>
    /\ UNCHANGED <<earlierVars, retryVars, pageVars, flatVars, uriVars>>

\* The payload is written back as a row.
BuildRow ==
    /\ kPc = "payload"
    /\ kRowOut' = DV360Sheet_buildSheetRowData_(kHeader, kPayload)
    /\ kPc' = "row"
    /\ UNCHANGED <<kHeader, kRow, kPayload>>
    /\ UNCHANGED <<earlierVars, retryVars, pageVars, flatVars, uriVars>>

InitCodec ==
    CodecInit /\ EarlierParked /\ RetryParked /\ PageParked /\ FlatParked
    /\ UriParked

NextCodec ==
    \/ BuildPayload
    \/ BuildRow

SpecCodec == InitCodec /\ [][NextCodec]_vars

\* The reserved headers: raw data, logs, action and targeting options.
ReservedHeaders ==
    {rawDataColumnName_, logsColumnName_, actionColumnName_,
     targetingOptionsColumnName_}

\* The columns the round trip is about: the header is not reserved and the
\* cell is not empty.
EntityColumns ==
    {i \in 1..Len(kHeader) : kHeader[i] \notin ReservedHeaders /\ kRow[i] # EmptyCell}

\* C22: after buildPayloadObject_ and buildSheetRowData_ every column whose
\* header is not reserved and whose cell is not empty holds exactly the text
\* it had, JSON text of an object and dotted headers included.
C22_RoundTripKeepsEveryCell ==
    kPc = "row" => \A i \in EntityColumns : kRowOut[i] = kRow[i]

\* The cell holds JSON text that Util.parseCellContent parses.
ParsesAsJson(cell) ==
    (\E i \in 1..Len(cell) : cell[i] = "{") /\ ~JsonParseTokensThrows(cell)

\* What the round trip does keep: a column with a header that is not blank
\* keeps its text when the text does not parse as JSON, and holds the
\* JSON.stringify text of the parsed value when it does.
RoundTripKeepsTextOrCanonicalJson ==
    kPc = "row" =>
        \A i \in EntityColumns : kHeader[i] # BlankField =>
            kRowOut[i] = IF ParsesAsJson(kRow[i])
                         THEN StringifyValue(JsonParseTokens(kRow[i]))
                         ELSE kRow[i]

\* C28: the payload has a field exactly for the columns whose header is not
\* reserved and whose cell is not empty; an empty cell leaves the field
\* absent, not present with an empty value.
C28_PayloadHasExactlyTheFilledFields ==
    kPc \in {"payload", "row"} =>
        \A i \in 1..Len(kHeader) :
            LET value == getValueByDottedPath(kPayload, kHeader[i])
            IN  /\ value # StringValue(<<>>)
                /\ value # UndefinedValue <=> i \in EntityColumns
                /\ i \in EntityColumns => value = parseCellContent(kRow[i])

\* C28 witness: a row of two columns, the first empty and the second, with
\* a dotted header, filled.
C28_Witness ==
    /\ kPc = "payload"
    /\ kHeader = <<<<"x">>, <<"z", "y">>>>
    /\ kRow = <<EmptyCell, PlainCell>>
    /\ kPayload = ObjectValue(<<<<"z", ObjectValue(<<<<"y", StringValue(PlainCell)>>>>)>>>>)

-----------------------------------------------------------------------------
(* Util.flattenObject                                                       *)
(*                                                                          *)
(* An array is a value of type "array" whose entries are keyed by the       *)
(* indexes "0", "1", ...; null is a value of type "null".  typeof gives     *)
(* 'object' for objects, arrays and null.  A key of the result is the       *)
(* sequence of the segments of its dotted name.                             *)

MaxProps == 2

IndexKeys == <<"0", "1", "2">>

ArrayValue(elements) ==
    [t |-> "array", text |-> <<>>,
     entries |-> [i \in 1..Len(elements) |-> <<IndexKeys[i], elements[i]>>]]
NullValue == [t |-> "null", text |-> <<>>, entries |-> <<>>]

\* typeof value === 'object'
TypeofObject(value) == value.t \in {"object", "array", "null"}

\* isNaN(x) of a key of the inner result: a number is a single segment that
\* is an index.
isNaN(x) == ~(Len(x) = 1 /\ \E i \in 1..Len(IndexKeys) : IndexKeys[i] = x[1])

RECURSIVE flattenObject(_)
\* Util.flattenObject
flattenObject(ob) ==
    LET entries == ob.entries
        \* the inner loop: toReturn[i + (isNaN(x) ? '.' + x : '')] = flatObject[x]
        Merge(toReturn, i, flatObject) ==
            LET inner == flatObject.entries
                Merged[n \in 0..Len(inner)] ==
                    IF n = 0 THEN toReturn
                    ELSE SetProperty(Merged[n - 1],
                             IF isNaN(inner[n][1]) THEN <<i>> \o inner[n][1]
                             ELSE <<i>>,
                             inner[n][2])
            IN  Merged[Len(inner)]
        \* the outer loop over the own properties of ob
        Flat[n \in 0..Len(entries)] ==
            IF n = 0 THEN ObjectValue(<<>>)
            ELSE IF TypeofObject(entries[n][2])
                 THEN Merge(Flat[n - 1], entries[n][1],
                            flattenObject(entries[n][2]))
                 ELSE SetProperty(Flat[n - 1], <<entries[n][1]>>, entries[n][2])
    IN  Flat[Len(entries)]

\* The values of the fields of the objects that are flattened.
FlatScalars == {StringValue(<<"s">>), StringValue(<<"t">>)}
FlatArrays ==
    {ArrayValue(<<>>), ArrayValue(<<StringValue(<<"s">>)>>),
     ArrayValue(<<StringValue(<<"s">>), StringValue(<<"t">>)>>)}
FlatNested ==
    {ObjectValue(<<<<"c", v>>>>) : v \in FlatScalars \cup FlatArrays}
FlatValues == FlatScalars \cup FlatArrays \cup FlatNested \cup {NullValue}

FlatInputs ==
    {ObjectValue(entries) :
        entries \in {e \in UNION {[1..n -> {"a", "b"} \X FlatValues] :
                                     n \in 1..MaxProps} :
                        \A i, j \in 1..Len(e) : e[i][1] = e[j][1] => i = j}}

FlatInit ==
    /\ fInput \in FlatInputs
    /\ fOutput = <<>>
    /\ fPc = "init"

\* Util.flattenObject(ob) is called.
FlattenCall ==
    /\ fPc = "init"
    /\ fOutput' = flattenObject(fInput)
    /\ fPc' = "done"
    /\ UNCHANGED fInput
    /\ UNCHANGED <<earlierVars, retryVars, pageVars, codecVars, uriVars>>

InitFlatten ==
    FlatInit /\ EarlierParked /\ RetryParked /\ PageParked /\ CodecParked
    /\ UriParked

NextFlatten == FlattenCall

SpecFlatten == InitFlatten /\ [][NextFlatten]_vars

RECURSIVE LeavesOf(_, _)
\* The leaves of a value as <<dotted path, value>>: plain objects are
\* descended into, everything else is a leaf.
LeavesOf(path, value) ==
    IF value.t # "object" THEN {<<path, value>>}
    ELSE UNION {LeavesOf(Append(path, value.entries[i][1]), value.entries[i][2]) :
                   i \in 1..Len(value.entries)}

\* C23: the result has exactly one entry for each leaf of the input, keyed
\* by the dotted path of the leaf and holding its value, where an array is a
\* leaf whose value is the array itself; so no two leaves share a key.
C23_ArraysAreLeaves ==
    fPc = "done" =>
        {<<fOutput.entries[i][1], fOutput.entries[i][2]>> :
            i \in 1..Len(fOutput.entries)}
          = {leaf \in LeavesOf(<<>>, fInput) : leaf[2].t # "null"}

-----------------------------------------------------------------------------
(* The URIs of DV360Resource: buildSingleEntityUri_ and buildPatchUri_.     *)
(* A URI is a sequence of pieces, as the templates of replaceInputValues.   *)

Piece(text) == <<"text", text>>

\* this.baseUri_: the first argument of each resource's constructor.
baseUri_(k) ==
    CASE k = "Advertisers" ->
             <<Piece("advertisers?partnerId="), Placeholder("partnerId")>>
      [] k = "Campaigns" ->
             <<Piece("advertisers/"), Placeholder("advertiserId"),
               Piece("/campaigns")>>
      [] k = "InsertionOrders" ->
             <<Piece("advertisers/"), Placeholder("advertiserId"),
               Piece("/insertionOrders")>>
      [] k = "LineItems" ->
             <<Piece("advertisers/"), Placeholder("advertiserId"),
               Piece("/lineItems")>>
      [] k = "Creatives" ->
             <<Piece("advertisers/"), Placeholder("advertiserId"),
               Piece("/creatives")>>

\* The entities a caller addresses: the own properties in order, with the
\* identifier of the entity and those of its parents.
UriEntities(k) ==
    IF k = "Advertisers"
    THEN {<<<<"fieldList_", "fieldList">>, <<"partnerId", p>>,
            <<"advertiserId", a>>>> : p \in {"1", "2"}, a \in {"3", "4"}}
    ELSE {<<<<"fieldList_", "fieldList">>, <<"advertiserId", a>>,
            <<IdFieldOf(k), id>>>> : a \in {"3", "4"}, id \in {"7", "8"}}

\* The patch masks of an update that changes something.
PatchMasks == {"displayName", "entityStatus", "displayName,entityStatus"}

\* String(entity[name]): 'undefined' for a property the entity has not.
PropertyText(entity, name) ==
    IF \E i \in 1..Len(entity) : entity[i][1] = name
    THEN entity[CHOOSE i \in 1..Len(entity) : entity[i][1] = name][2]
    ELSE "undefined"

\* getPrimaryId, as the text that is concatenated into the URI.
getPrimaryIdText(k, entity) == PropertyText(entity, primaryIdField_(k))

\* buildSingleEntityUri_
buildSingleEntityUri_(k, params) ==
    replaceInputValues(
        baseUri_(k) \o <<Piece("/"), Piece(getPrimaryIdText(k, params))>>,
        ParamsOf(params))

\* buildPatchUri_, patchMask being entity.getPatchMask(modified)
buildPatchUri_(k, entity, patchMask) ==
    buildSingleEntityUri_(k, entity)
        \o <<Piece("?updateMask="), Piece(patchMask)>>

UriInit ==
    /\ gKind \in Kinds
    /\ gEntity \in UriEntities(gKind)
    /\ gModified \in PatchMasks
    /\ gUris = <<>>
    /\ gPc = "init"

\* The URIs that get, the PATCH of update and delete address for the entity.
BuildUris ==
    /\ gPc = "init"
    /\ gUris' = [get |-> buildSingleEntityUri_(gKind, gEntity),
                 patch |-> buildPatchUri_(gKind, gEntity, gModified),
                 delete |-> buildSingleEntityUri_(gKind, gEntity)]
    /\ gPc' = "done"
    /\ UNCHANGED <<gKind, gEntity, gModified>>
    /\ UNCHANGED <<earlierVars, retryVars, pageVars, codecVars, flatVars>>

InitUri ==
    UriInit /\ EarlierParked /\ RetryParked /\ PageParked /\ CodecParked
    /\ FlatParked

NextUri == BuildUris

SpecUri == InitUri /\ [][NextUri]_vars

\* The collection path of the resource with the identifiers of the entity
\* in it, followed by "/" and the primary identifier of the entity.
SingleEntityUriShape ==
    replaceInputValues(baseUri_(gKind), ParamsOf(gEntity))
        \o <<Piece("/"), Piece(PropertyText(gEntity, IdFieldOf(gKind)))>>

\* C24: for every resource and every entity with its identifiers, get and
\* delete address the resolved collection path followed by "/" and the
\* primary identifier of the entity, and the PATCH of update the same with
\* "?updateMask=<mask>" after it.
C24_SingleEntityUriShape ==
    gPc = "done" =>
        /\ gUris.get = SingleEntityUriShape
        /\ gUris.delete = SingleEntityUriShape
        /\ gUris.patch = SingleEntityUriShape
                             \o <<Piece("?updateMask="), Piece(gModified)>>

\* The same for the resources that name their primary identifier.
SingleEntityUriShapeButAdvertisers ==
    gKind # "Advertisers" => C24_SingleEntityUriShape

---------------------------------------------------------------------------
(* Claims about the order of the effects of one row (SpecSheet) *)

\* C27: in a DV360Sheet pass, every row whose create call succeeded holds
\* the new identifier and the raw-data JSON of the created entity, even when
\* the targeting reconciliation that follows the create call fails.
C27_CreatedEntityIsWrittenBeforeReconciliation ==
    sClass = "DV360Sheet" =>
        \A e \in 1..Len(sEvents) :
            (sEvents[e].op = "create" /\ sEvents[e].ok) =>
                /\ sheet[RowOfKey(sEvents[e].key)].id = CreatedId
                /\ sheet[RowOfKey(sEvents[e].key)].rawData = EntityJson

\* The cells of a row other than its _logs cell.
CellsButLogs(row) ==
    [c \in DOMAIN row \ {"logs"} |-> row[c]]

\* The step of createNewEntities_, updateData_ or deleteEntries_ that is
\* being taken ends in the catch block: its last call failed.
RowStepFails ==
    /\ sClass = "DV360Sheet"
    /\ Len(sEvents') > Len(sEvents)
    /\ ~sEvents'[Len(sEvents')].ok

\* C30: a step of a DV360Sheet pass whose row fails changes nothing but the
\* _logs cell of that row, which receives the error message: every row that
\* is still on the sheet has the cells it had, the _logs cell of the failing
\* row apart, and no row number is added to the rows to delete.
C30_ErrorHandlerWritesOnlyTheLogCell ==
    [][RowStepFails =>
          LET failing == sEvents'[Len(sEvents')].key
          IN  /\ sToDelete' = sToDelete
              /\ \E r \in 1..Len(sheet') : sheet'[r].key = failing
              /\ \A r \in 1..Len(sheet') :
                    \E q \in 1..Len(sheet) :
                        /\ sheet[q].key = sheet'[r].key
                        /\ CellsButLogs(sheet'[r]) = CellsButLogs(sheet[q])
                        /\ IF sheet[q].key = failing
                           THEN sheet'[r].logs \in
                                    {ApiErrorMessage, TargetingErrorMessage}
                           ELSE sheet'[r].logs = sheet[q].logs]_vars

\* A pass is over in which a delete call failed on a row that follows a row
\* already written to: the failing row holds the error message and still
\* holds its action and its identifier.
C30_Witness ==
    /\ sClass = "DV360Sheet"
    /\ sPc = "done"
    /\ Len(sheet) >= 2
    /\ \E e \in 1..Len(sEvents) :
          /\ sEvents[e].op = "delete"
          /\ ~sEvents[e].ok
          /\ \E r \in 1..Len(sheet) :
                /\ sheet[r].key = sEvents[e].key
                /\ sheet[r].logs = ApiErrorMessage
                /\ sheet[r].action = "DELETE"
    /\ \E r \in 1..Len(sheet) : sheet[r].logs = "OK"

=============================================================================
